---- MODULE Spec2Model ----
(***************************************************************************)
(* Model of the multi-user PR/MR comment notifier (src/index.js): the      *)
(* webhook route handlers, the payload parsers, owner and mention           *)
(* resolution and the delivery loop of processWebhook.                      *)
(*                                                                          *)
(* Strings that the code lower-cases, coerces or matches with a regular    *)
(* expression are sequences of one-character strings; opaque strings       *)
(* (user names, endpoint URLs, enum-like payload fields) are TLA+ strings.  *)
(***************************************************************************)
EXTENDS Integers, Sequences, FiniteSets, TLC

\* ------------------------------------------------------------------------
\* Bounds
\* ------------------------------------------------------------------------
\* Largest number of entries in USERS_CONFIG that Init draws.
MaxUsers == 2

\* Length of the expected signature string ('sha256=' + hex digest).
DigestLen == 2

\* ------------------------------------------------------------------------
\* JavaScript values read from payloads and from USERS_CONFIG
\* ------------------------------------------------------------------------
Undef == [t |-> "undef"]
Null == [t |-> "null"]
Str(s) == [t |-> "str", v |-> s]
Num(n) == [t |-> "num", v |-> n]

\* _.get(obj, path, dflt): the default replaces only an undefined value.
Get(val, dflt) == IF val.t = "undef" THEN dflt ELSE val

\* JavaScript truthiness: !x, filter(Boolean), if (x).
Truthy(val) ==
  CASE val.t = "undef" -> FALSE
    [] val.t = "null" -> FALSE
    [] val.t = "str" -> Len(val.v) > 0
    [] val.t = "num" -> val.v # 0

Digits == <<"1", "2", "3", "4", "5", "6", "7", "8", "9">>

\* String(x) for the values the model uses (numbers are 0..9).
ToStr(val) ==
  CASE val.t = "str" -> val.v
    [] val.t = "num" -> IF val.v = 0 THEN <<"0">> ELSE <<Digits[val.v]>>
    [] val.t = "null" -> <<"n", "u", "l", "l">>
    [] val.t = "undef" -> <<"u", "n", "d", "e", "f", "i", "n", "e", "d">>

UpperAlphabet ==
  <<"A", "B", "C", "D", "E", "F", "G", "H", "I", "J", "K", "L", "M",
    "N", "O", "P", "Q", "R", "S", "T", "U", "V", "W", "X", "Y", "Z">>

LowerAlphabet ==
  <<"a", "b", "c", "d", "e", "f", "g", "h", "i", "j", "k", "l", "m",
    "n", "o", "p", "q", "r", "s", "t", "u", "v", "w", "x", "y", "z">>

\* toLowerCase on one character.
LowerChar(c) ==
  IF \E i \in 1..26 : UpperAlphabet[i] = c
  THEN LowerAlphabet[CHOOSE i \in 1..26 : UpperAlphabet[i] = c]
  ELSE c

\* String.prototype.toLowerCase on a character sequence.
ToLowerCase(s) == [i \in 1..Len(s) |-> LowerChar(s[i])]

\* x.toLowerCase() is defined on strings only; on null it throws TypeError.
CanLowerCase(val) == val.t = "str"

WordChars ==
  {UpperAlphabet[i] : i \in 1..26} \cup {LowerAlphabet[i] : i \in 1..26}
    \cup {Digits[i] : i \in 1..9} \cup {"0", "_"}

\* \w of a JavaScript regular expression.
IsWordChar(c) == c \in WordChars

\* ------------------------------------------------------------------------
\* State
\* ------------------------------------------------------------------------
VARIABLES
  users,          \* the registry parsed from USERS_CONFIG (sequence of entries)
  githubSecret,   \* config.github.webhookSecret: TRUE when a secret is set
  gitlabToken,    \* config.gitlab.webhookToken: Undef or the configured token
  allowSelf,      \* process.env.ALLOW_SELF_COMMENTS === 'true'
  pc,             \* per request: where its handler stands
  req,            \* per request: the source and the JSON body
  header,         \* per request: the signature/token header until it is accepted
  called,         \* per request: the parsers evaluated so far, in order
  event,          \* per request: the parsed event (mergeEvent/approvalEvent/parsed)
  prOwner,        \* per request: index in users of the resolved owner, 0 if none
  mentionedUsers, \* per request: the mention matches not yet considered
  notifiedUsers,  \* per request: the Set of names already notified
  results,        \* per request: the results array
  posts,          \* per request: the outbound POSTs issued so far, with outcome
  inflight,       \* per request: the delivery being awaited
  resp,           \* per request: the HTTP response sent
  probe,          \* the last direct application of a resolver or card function
  proc,           \* the stage of the server process, from startup to listening
  env,            \* process.env.USERS_CONFIG
  program         \* which server file is running: index.js or a single-user variant

vars == <<users, githubSecret, gitlabToken, allowSelf, pc, req, header, called, event,
          prOwner, mentionedUsers, notifiedUsers, results, posts, inflight, resp,
          probe, proc, env, program>>

config == <<users, githubSecret, gitlabToken, allowSelf, program>>

\* ------------------------------------------------------------------------
\* Authenticity checks
\* ------------------------------------------------------------------------
\* 'sha256=' + HMAC-SHA256(secret, JSON.stringify(payload)) as hex: a string
\* of fixed length that depends on the payload.  The payload dependence is
\* kept by deriving the first character from the payload's action.
ExpectedDigest(body) ==
  [i \in 1..DigestLen |-> IF i = 1 /\ body.action = "created" THEN "b" ELSE "a"]

\* crypto.timingSafeEqual(a, b): throws RangeError when the byte lengths
\* differ, otherwise compares the contents.
timingSafeEqual(a, b) ==
  IF Len(a) # Len(b) THEN "throw" ELSE IF a = b THEN "true" ELSE "false"

\* verifyGitHubSignature(payload, signature): "true", "false" or "throw".
verifyGitHubSignature(body, signature) ==
  IF ~githubSecret THEN "true"
  ELSE timingSafeEqual(ToStr(IF Truthy(signature) THEN signature ELSE Str(<<>>)),
                       ExpectedDigest(body))

\* Mutant of verifyGitLabToken: the bypass for an unset token is missing.
verifyGitLabToken_NoBypass(token) == token = gitlabToken

\* verifyGitLabToken(token)
verifyGitLabToken(token) ==
  IF ~Truthy(gitlabToken) THEN TRUE ELSE token = gitlabToken

\* ------------------------------------------------------------------------
\* Recipient resolution
\* ------------------------------------------------------------------------
\* users.find(...) in findPROwner: the predicate applied to one entry.
IsPROwner(user, source, prAuthorStr) ==
  CASE source = "github" -> prAuthorStr = ToLowerCase(Get(user.ghName, Str(<<>>)).v)
    [] source = "gitlab" -> prAuthorStr = ToStr(Get(user.glId, Str(<<>>)))
    [] OTHER -> FALSE

\* Mutant of findPROwner: the author is not lower-cased before comparing.
findPROwner_CaseSensitive(source, prAuthor) ==
  LET prAuthorStr == ToStr(prAuthor)
      hits == {i \in 1..Len(users) : IsPROwner(users[i], source, prAuthorStr)}
  IN IF hits = {} THEN 0 ELSE CHOOSE i \in hits : \A j \in hits : i <= j

\* findPROwner(source, prAuthor): index of the first matching entry, 0 when
\* users.find returns undefined.
findPROwner(source, prAuthor) ==
  LET prAuthorStr == ToLowerCase(ToStr(prAuthor))
      hits == {i \in 1..Len(users) : IsPROwner(users[i], source, prAuthorStr)}
  IN IF hits = {} THEN 0 ELSE CHOOSE i \in hits : \A j \in hits : i <= j

\* Mutant of isCommentAuthor: the comparison is case-sensitive.
isCommentAuthor_CaseSensitive(user, source, commentAuthor) ==
  CASE source = "github" ->
         ToStr(commentAuthor) = Get(user.ghName, Str(<<>>)).v
    [] source = "gitlab" ->
         ToStr(commentAuthor) = Get(user.glName, Str(<<>>)).v
    [] OTHER -> FALSE

\* isCommentAuthor(user, source, commentAuthor)
isCommentAuthor(user, source, commentAuthor) ==
  LET commentAuthorLower == ToLowerCase(ToStr(commentAuthor))
  IN CASE source = "github" ->
            commentAuthorLower = ToLowerCase(Get(user.ghName, Str(<<>>)).v)
       [] source = "gitlab" ->
            commentAuthorLower = ToLowerCase(Get(user.glName, Str(<<>>)).v)
       [] OTHER -> FALSE

\* One pattern character of the interpolated name against one body character
\* under the 'i' flag: '.' is the regular-expression wildcard, every other
\* character used in the registry stands for itself.
PatternCharMatches(p, c) ==
  IF p = "." THEN c # "\n" ELSE LowerChar(p) = LowerChar(c)

\* Mutant of WordBoundaryAfter: the pattern has no \b.
WordBoundaryAfter_Missing(body, j) == TRUE

\* The \b assertion between body[j] and body[j+1].
WordBoundaryAfter(body, j) ==
  IsWordChar(body[j]) # (j + 1 <= Len(body) /\ IsWordChar(body[j + 1]))

\* new RegExp(`@${name}\\b`, 'i').test(body)
MentionPatternTest(name, body) ==
  \E i \in 1..Len(body) :
     /\ body[i] = "@"
     /\ i + Len(name) <= Len(body)
     /\ \A k \in 1..Len(name) : PatternCharMatches(name[k], body[i + k])
     /\ WordBoundaryAfter(body, i + Len(name))

\* [username, ...aliases].filter(Boolean) for one entry.
AllNames(user, source) ==
  LET username == IF source = "github" THEN Get(user.ghName, Str(<<>>)).v
                  ELSE Get(user.glName, Str(<<>>)).v
  IN SelectSeq(<<username>> \o user.aliases, LAMBDA n : Len(n) > 0)

\* Mutant of FirstMentioned: the last matching name is taken.
FirstMentioned_Last(names, body) ==
  LET hits == {k \in 1..Len(names) : MentionPatternTest(names[k], body)}
  IN IF hits = {} THEN 0 ELSE CHOOSE k \in hits : \A j \in hits : k >= j

\* allNames.find(...): position of the first name that matches, 0 if none.
FirstMentioned(names, body) ==
  LET hits == {k \in 1..Len(names) : MentionPatternTest(names[k], body)}
  IN IF hits = {} THEN 0 ELSE CHOOSE k \in hits : \A j \in hits : k <= j

RECURSIVE MentionsFrom(_, _, _)
MentionsFrom(i, body, source) ==
  IF i > Len(users) THEN <<>>
  ELSE LET names == AllNames(users[i], source)
           k == FirstMentioned(names, body)
       IN (IF k = 0 THEN <<>> ELSE <<[user |-> i, mentionedAs |-> names[k]]>>)
          \o MentionsFrom(i + 1, body, source)

\* Mutant of findMentionedUsers: the matches come last entry first.
findMentionedUsers_Reversed(commentBody, source) ==
  IF ~Truthy(commentBody) THEN <<>>
  ELSE LET m == MentionsFrom(1, ToStr(commentBody), source)
       IN [i \in 1..Len(m) |-> m[Len(m) + 1 - i]]

\* findMentionedUsers(commentBody, source): the matches in registry order.
findMentionedUsers(commentBody, source) ==
  IF ~Truthy(commentBody) THEN <<>>
  ELSE MentionsFrom(1, ToStr(commentBody), source)

\* ------------------------------------------------------------------------
\* Payload normalisation
\* ------------------------------------------------------------------------
\* Constants of src/index.js lines 66-75 whose values are compared after
\* lower-casing are character sequences; the others are opaque strings.
COMMENT_CREATED_ACTION == "created"
NOTE_OBJECT_KIND == "note"
MERGE_REQUEST_OBJECT_KIND == "merge_request"
MERGE_REQUEST_TYPE == "MergeRequest"
MERGE_ACTION == "merge"
APPROVED_ACTION == "approved"
PR_CLOSED_ACTION == "closed"
PR_REVIEW_SUBMITTED_ACTION == "submitted"
PR_REVIEW_APPROVED_STATE == <<"a", "p", "p", "r", "o", "v", "e", "d">>
PR_REVIEW_CHANGES_REQUESTED_STATE ==
  <<"c", "h", "a", "n", "g", "e", "s", "_",
    "r", "e", "q", "u", "e", "s", "t", "e", "d">>

\* A parser's "return;" (undefined) and a parser that throws.
NoEvent == [type |-> "none"]
Thrown == [type |-> "throw"]

\* parseGitHubMergeEvent(body)
parseGitHubMergeEvent(body) ==
  IF body.action # PR_CLOSED_ACTION THEN NoEvent
  ELSE IF ~body.hasPR THEN NoEvent
  ELSE IF ~body.merged THEN NoEvent
  ELSE [type |-> "merge", source |-> "github",
        prAuthor |-> Get(body.prLogin, Str(<<>>)),
        mergedBy |-> IF Truthy(Get(body.mergedByLogin, Str(<<>>)))
                     THEN Get(body.mergedByLogin, Str(<<>>))
                     ELSE Get(body.senderLogin, Str(<<>>))]

\* parseGitLabMergeEvent(body)
parseGitLabMergeEvent(body) ==
  IF body.object_kind # MERGE_REQUEST_OBJECT_KIND THEN NoEvent
  ELSE IF body.oaAction # MERGE_ACTION THEN NoEvent
  ELSE [type |-> "merge", source |-> "gitlab", prAuthor |-> body.oaAuthorId,
        mergedBy |-> Get(body.username, Str(<<>>))]

\* parseGitLabApprovalEvent(body)
parseGitLabApprovalEvent(body) ==
  IF body.object_kind # MERGE_REQUEST_OBJECT_KIND THEN NoEvent
  ELSE IF body.oaAction # APPROVED_ACTION THEN NoEvent
  ELSE [type |-> "approval", source |-> "gitlab",
        state |-> PR_REVIEW_APPROVED_STATE,
        prAuthor |-> body.oaAuthorId, reviewBody |-> Undef,
        reviewedBy |-> Get(body.username, Str(<<>>))]

\* Mutant of parseGitHubReviewEvent: the test on the state is missing.
parseGitHubReviewEvent_AnyState(body) ==
  IF body.action # PR_REVIEW_SUBMITTED_ACTION THEN NoEvent
  ELSE IF ~body.hasReview \/ ~body.hasPR THEN NoEvent
  ELSE LET raw == Get(body.reviewState, Str(<<>>))
       IN IF ~CanLowerCase(raw) THEN Thrown
          ELSE [type |-> "approval", source |-> "github",
                state |-> ToLowerCase(raw.v),
                prAuthor |-> Get(body.prLogin, Str(<<>>)),
                reviewBody |-> Get(body.reviewBody, Str(<<>>)),
                reviewedBy |-> Get(body.reviewLogin, Str(<<>>))]

\* parseGitHubReviewEvent(body): _.get(review, 'state', '').toLowerCase()
\* throws when the state is present but not a string.
parseGitHubReviewEvent(body) ==
  IF body.action # PR_REVIEW_SUBMITTED_ACTION THEN NoEvent
  ELSE IF ~body.hasReview \/ ~body.hasPR THEN NoEvent
  ELSE LET raw == Get(body.reviewState, Str(<<>>))
       IN IF ~CanLowerCase(raw) THEN Thrown
          ELSE LET state == ToLowerCase(raw.v)
               IN IF state # PR_REVIEW_APPROVED_STATE
                     /\ state # PR_REVIEW_CHANGES_REQUESTED_STATE
                  THEN NoEvent
                  ELSE [type |-> "approval", source |-> "github",
                        state |-> state,
                        prAuthor |-> Get(body.prLogin, Str(<<>>)),
                        reviewBody |-> Get(body.reviewBody, Str(<<>>)),
                        reviewedBy |-> Get(body.reviewLogin, Str(<<>>))]

\* Mutant of parseGitHubReviewPayload: the test on the action is missing.
parseGitHubReviewPayload_AnyAction(body) ==
  IF ~body.hasPR \/ ~body.hasComment THEN NoEvent
  ELSE [type |-> "comment", source |-> "github",
        prAuthor |-> Get(body.prLogin, Str(<<>>)),
        commentAuthor |-> Get(body.commentLogin, Str(<<>>)),
        commentBody |-> Get(body.commentBody, Str(<<>>))]

\* parseGitHubReviewPayload(body): a review-line comment.
parseGitHubReviewPayload(body) ==
  IF body.action # COMMENT_CREATED_ACTION THEN NoEvent
  ELSE IF ~body.hasPR \/ ~body.hasComment THEN NoEvent
  ELSE [type |-> "comment", source |-> "github",
        prAuthor |-> Get(body.prLogin, Str(<<>>)),
        commentAuthor |-> Get(body.commentLogin, Str(<<>>)),
        commentBody |-> Get(body.commentBody, Str(<<>>))]

\* Mutant of parseGitHubPayload: the isPR test is missing.
parseGitHubPayload_NoMarker(body) ==
  IF body.action # COMMENT_CREATED_ACTION THEN NoEvent
  ELSE LET hasPullRequest == body.hasPR \/ body.hasIssue
       IN IF ~hasPullRequest \/ ~body.hasComment THEN NoEvent
          ELSE [type |-> "comment", source |-> "github",
                prAuthor |-> Get(IF body.hasPR THEN body.prLogin
                                 ELSE body.issueLogin, Str(<<>>)),
                commentAuthor |-> Get(body.commentLogin, Str(<<>>)),
                commentBody |-> Get(body.commentBody, Str(<<>>))]

\* parseGitHubPayload(body): an issue-style comment on a PR.
parseGitHubPayload(body) ==
  IF body.action # COMMENT_CREATED_ACTION THEN NoEvent
  ELSE LET hasPullRequest == body.hasPR \/ body.hasIssue
           isPR == (body.hasIssue /\ body.issueHasPR) \/ body.hasPR
       IN IF ~hasPullRequest \/ ~body.hasComment THEN NoEvent
          ELSE IF ~isPR THEN NoEvent
          ELSE [type |-> "comment", source |-> "github",
                prAuthor |-> Get(IF body.hasPR THEN body.prLogin
                                 ELSE body.issueLogin, Str(<<>>)),
                commentAuthor |-> Get(body.commentLogin, Str(<<>>)),
                commentBody |-> Get(body.commentBody, Str(<<>>))]

\* Mutant of parseGitLabPayload: the noteable_type test is missing.
parseGitLabPayload_AnyNoteable(body) ==
  IF body.object_kind # NOTE_OBJECT_KIND THEN NoEvent
  ELSE IF ~body.hasMR THEN NoEvent
  ELSE [type |-> "comment", source |-> "gitlab",
        prAuthor |-> body.mrAuthorId,
        commentAuthor |-> Get(body.username, Str(<<>>)),
        commentBody |-> Get(body.note, Str(<<>>))]

\* parseGitLabPayload(body): a note on a merge request.
parseGitLabPayload(body) ==
  IF body.object_kind # NOTE_OBJECT_KIND THEN NoEvent
  ELSE IF body.noteableType # MERGE_REQUEST_TYPE THEN NoEvent
  ELSE IF ~body.hasMR THEN NoEvent
  ELSE [type |-> "comment", source |-> "gitlab",
        prAuthor |-> body.mrAuthorId,
        commentAuthor |-> Get(body.username, Str(<<>>)),
        commentBody |-> Get(body.note, Str(<<>>))]

\* createAdaptiveCard(data) reads commentBody.length: TypeError when the body
\* is null (undefined was already replaced by '' in the parser).
CardThrows(commentBody) == commentBody.t \in {"null", "undef"}

\* The length above which the cards cut a body (the literal 500 of lines 417,
\* 501 and 665).
BodyLimit == 500

Ellipsis == <<".", ".", ".">>

\* Mutant of createAdaptiveCard: the length test is >= instead of >.
createAdaptiveCard_OffByOne(commentBody) ==
  [text |-> IF Len(commentBody) >= BodyLimit
            THEN SubSeq(commentBody, 1, BodyLimit) \o Ellipsis
            ELSE commentBody]

\* createAdaptiveCard(data), lines 416-419: the comment text block of the
\* card sent to the owner.
createAdaptiveCard(commentBody) ==
  [text |-> IF Len(commentBody) > BodyLimit
            THEN SubSeq(commentBody, 1, BodyLimit) \o Ellipsis
            ELSE commentBody]

\* createMentionCard(data, mentionedAs), lines 500-503 and 518: the comment
\* text block and the name shown in the title.
createMentionCard(commentBody, mentionedAs) ==
  [mentionedAs |-> mentionedAs,
   text |-> IF Len(commentBody) > BodyLimit
            THEN SubSeq(commentBody, 1, BodyLimit) \o Ellipsis
            ELSE commentBody]

\* createApprovalCard(data), lines 664-675: the review text block is pushed
\* only for a truthy reviewBody.
createApprovalCard(reviewBody) ==
  [blocks |-> IF Truthy(reviewBody)
              THEN <<IF Len(reviewBody.v) > BodyLimit
                     THEN SubSeq(reviewBody.v, 1, BodyLimit) \o Ellipsis
                     ELSE reviewBody.v>>
              ELSE <<>>]

\* ------------------------------------------------------------------------
\* Inputs: registry entries, payloads and headers
\* ------------------------------------------------------------------------
S_al == <<"a", "l">>
S_AL == <<"A", "L">>
S_bo == <<"b", "o">>
S_Bo == <<"B", "o">>
S_BO == <<"B", "O">>
S_zz == <<"z", "z">>
S_fe == <<"f", "e">>

\* Entries of USERS_CONFIG as the README describes them: a user known on
\* both platforms with a team alias, a user whose GitHub name is written in
\* mixed case, an alias-only user with no platform identity, and a second
\* entry that repeats the first one's name, GitHub name, GitLab id and alias
\* (with another endpoint and no GitLab username).
UserAlice ==
  [name |-> "alice", teamsWebhookUrl |-> "urlA", ghName |-> Str(S_al),
   glName |-> Str(S_al), glId |-> Num(1), aliases |-> <<S_fe>>]
UserBob ==
  [name |-> "bob", teamsWebhookUrl |-> "urlB", ghName |-> Str(S_Bo),
   glName |-> Str(S_bo), glId |-> Num(2), aliases |-> <<>>]
UserCarol ==
  [name |-> "carol", teamsWebhookUrl |-> "urlC", ghName |-> Undef,
   glName |-> Undef, glId |-> Undef, aliases |-> <<S_fe>>]
UserDan ==
  [name |-> "alice", teamsWebhookUrl |-> "urlD", ghName |-> Str(S_al),
   glName |-> Undef, glId |-> Num(1), aliases |-> <<S_fe>>]

UserPool == {UserAlice, UserBob, UserCarol, UserDan}

\* The registries Init draws: 1..MaxUsers distinct entries in any order.  Each
\* passes the startup validation (name and teamsWebhookUrl present).
Registries ==
  UNION {{u \in [1..n -> UserPool] : \A i, j \in 1..n : i # j => u[i] # u[j]}
         : n \in 1..MaxUsers}

\* Comment, note and review bodies.
B_hi == Str(<<"h", "i">>)
B_atAL == Str(<<"@", "A", "L", " ", "x">>)
B_atFeBo == Str(<<"@", "f", "e", " ", "@", "b", "o">>)
B_atAls == Str(<<"@", "a", "l", "s">>)
Bodies == {Undef, Null, B_hi, B_atAL, B_atFeBo, B_atAls}

PrLogins == {Undef, Str(S_AL), Str(S_bo), Str(S_zz)}
CommentLogins == {Str(S_al), Str(S_BO), Str(S_zz)}

S_APPROVED == <<"A", "P", "P", "R", "O", "V", "E", "D">>
S_commented == <<"c", "o", "m", "m", "e", "n", "t", "e", "d">>
ReviewStates ==
  {Str(S_APPROVED), Str(PR_REVIEW_CHANGES_REQUESTED_STATE), Str(S_commented),
   Null, Undef}

GHBase ==
  [action |-> "opened", hasPR |-> FALSE, merged |-> FALSE, prLogin |-> Undef,
   hasReview |-> FALSE, reviewState |-> Undef, reviewBody |-> Undef,
   hasComment |-> FALSE, commentLogin |-> Undef, commentBody |-> Undef,
   hasIssue |-> FALSE, issueHasPR |-> FALSE, issueLogin |-> Undef,
   mergedByLogin |-> Undef, senderLogin |-> Undef, reviewLogin |-> Undef]

GHClosed ==
  {[GHBase EXCEPT !.action = "closed", !.hasPR = TRUE, !.merged = m,
                  !.prLogin = l] : m \in BOOLEAN, l \in PrLogins}
  \cup {[GHBase EXCEPT !.action = "closed", !.hasPR = TRUE, !.merged = TRUE,
                       !.prLogin = l, !.mergedByLogin = m, !.senderLogin = s]
          : l \in {Str(S_AL), Str(S_bo)}, m \in {Undef, Str(S_al)},
            s \in {Undef, Str(S_BO)}}
  \cup {[GHBase EXCEPT !.action = "closed"],
        [GHBase EXCEPT !.action = "closed", !.hasPR = TRUE, !.merged = TRUE,
                       !.prLogin = Str(S_AL), !.hasReview = TRUE,
                       !.reviewState = Str(S_APPROVED), !.hasComment = TRUE,
                       !.commentLogin = Str(S_zz), !.commentBody = B_atFeBo]}

GHSubmitted ==
  {[GHBase EXCEPT !.action = "submitted", !.hasPR = TRUE, !.hasReview = TRUE,
                  !.reviewState = st, !.prLogin = l]
     : st \in ReviewStates, l \in PrLogins}
  \cup {[GHBase EXCEPT !.action = "submitted", !.hasPR = TRUE,
                       !.hasReview = TRUE, !.reviewState = Str(S_APPROVED),
                       !.prLogin = l, !.reviewLogin = v]
          : l \in {Str(S_AL), Str(S_bo)}, v \in {Str(S_al), Str(S_BO)}}
  \cup {[GHBase EXCEPT !.action = "submitted", !.hasPR = TRUE,
                       !.hasReview = TRUE, !.reviewState = Str(S_APPROVED),
                       !.prLogin = l, !.reviewBody = B_atFeBo,
                       !.hasComment = c, !.commentLogin = Str(S_zz),
                       !.commentBody = B_atFeBo]
          : l \in PrLogins, c \in BOOLEAN}
  \cup {[GHBase EXCEPT !.action = "submitted", !.hasPR = TRUE],
        [GHBase EXCEPT !.action = "submitted", !.hasReview = TRUE,
                       !.reviewState = Str(S_APPROVED)]}

GHCreated ==
  {[GHBase EXCEPT !.action = "created", !.hasPR = TRUE, !.prLogin = l,
                  !.hasComment = TRUE, !.commentLogin = c, !.commentBody = b]
     : l \in PrLogins, c \in CommentLogins, b \in Bodies}
  \cup {[GHBase EXCEPT !.action = "created", !.hasIssue = TRUE,
                       !.issueHasPR = TRUE, !.issueLogin = l,
                       !.hasComment = TRUE, !.commentLogin = c,
                       !.commentBody = b]
          : l \in PrLogins, c \in {Str(S_al), Str(S_zz)},
            b \in {B_atAL, B_atFeBo}}
  \cup {[GHBase EXCEPT !.action = "created", !.hasIssue = TRUE,
                       !.issueLogin = Str(S_AL), !.hasComment = TRUE,
                       !.commentLogin = Str(S_zz), !.commentBody = B_atFeBo],
        [GHBase EXCEPT !.action = "created", !.hasComment = TRUE,
                       !.commentLogin = Str(S_zz), !.commentBody = B_atFeBo],
        [GHBase EXCEPT !.action = "created", !.hasPR = TRUE,
                       !.prLogin = Str(S_AL)]}

GitHubBodies == GHClosed \cup GHSubmitted \cup GHCreated \cup {GHBase}

AuthorIds == {Undef, Num(1), Num(2), Num(9)}
NoteAuthors == {Str(S_AL), Str(S_bo), Str(S_zz)}

GLBase ==
  [object_kind |-> "push", oaAction |-> "none", oaAuthorId |-> Undef,
   noteableType |-> "none", note |-> Undef, hasMR |-> FALSE,
   mrAuthorId |-> Undef, username |-> Undef]

GLMergeRequest ==
  {[GLBase EXCEPT !.object_kind = "merge_request", !.oaAction = a,
                  !.oaAuthorId = id, !.username = c]
     : a \in {"merge", "approved", "open"}, id \in AuthorIds,
       c \in NoteAuthors}
  \cup {[GLBase EXCEPT !.object_kind = "merge_request", !.oaAction = "open",
                       !.oaAuthorId = Num(1), !.noteableType = "MergeRequest",
                       !.note = B_atFeBo, !.hasMR = TRUE,
                       !.mrAuthorId = Num(1), !.username = Str(S_zz)]}

GLNote ==
  {[GLBase EXCEPT !.object_kind = "note", !.noteableType = "MergeRequest",
                  !.hasMR = TRUE, !.mrAuthorId = id, !.username = c,
                  !.note = b]
     : id \in AuthorIds, c \in NoteAuthors, b \in Bodies}
  \cup {[GLBase EXCEPT !.object_kind = "note", !.noteableType = nt,
                       !.hasMR = m, !.mrAuthorId = Num(1),
                       !.username = Str(S_zz), !.note = B_atFeBo]
          : nt \in {"Issue", "Commit", "none"}, m \in BOOLEAN}
  \cup {[GLBase EXCEPT !.object_kind = "note",
                       !.noteableType = "MergeRequest",
                       !.username = Str(S_zz), !.note = B_atFeBo],
        [GLBase EXCEPT !.object_kind = "note", !.oaAction = "merge",
                       !.oaAuthorId = Num(1), !.noteableType = "Issue",
                       !.hasMR = TRUE, !.mrAuthorId = Num(1),
                       !.username = Str(S_zz), !.note = B_atFeBo]}

GitLabBodies == GLMergeRequest \cup GLNote \cup {GLBase}

\* x-hub-signature-256 values: absent, the expected length with either first
\* character, and one character too long.
SignatureHeaders ==
  {Undef,
   Str([i \in 1..DigestLen |-> "a"]),
   Str([i \in 1..DigestLen |-> IF i = 1 THEN "b" ELSE "a"]),
   Str([i \in 1..(DigestLen + 1) |-> "a"])}

\* x-gitlab-token values: absent, the configured token, another token.
TheToken == Str(<<"t">>)
TokenHeaders == {Undef, TheToken, Str(<<"x">>)}

\* ------------------------------------------------------------------------
\* Requests
\* ------------------------------------------------------------------------
\* Request slots of the server; Serial are the slots used when requests are
\* handled one at a time.
ReqIds == {1, 2}
Serial == {1}

NoReq == [source |-> "none"]
\* The header of a request whose authenticity check has passed: neither
\* handler reads the signature or token again.
Accepted == [t |-> "accepted"]
NoDelivery == [role |-> "none"]
NoResp == [status |-> 0]
NoProbe == [fn |-> "none"]

\* process.env.USERS_CONFIG: unset, the empty string, or a text; a text is
\* represented by what JSON.parse makes of it.
EnvUnset == [k |-> "unset"]
EnvEmpty == [k |-> "empty"]
EnvText(doc) == [k |-> "text", doc |-> doc]

\* The USERS_CONFIG text of a running server: JSON.stringify of its registry.
UsersConfigStr(us) == EnvText([j |-> "array", items |-> us])

\* No request has arrived yet.
NoRequests ==
  /\ pc = [r \in ReqIds |-> "idle"]
  /\ req = [r \in ReqIds |-> NoReq]
  /\ header = [r \in ReqIds |-> Undef]
  /\ called = [r \in ReqIds |-> <<>>]
  /\ event = [r \in ReqIds |-> NoEvent]
  /\ prOwner = [r \in ReqIds |-> 0]
  /\ mentionedUsers = [r \in ReqIds |-> <<>>]
  /\ notifiedUsers = [r \in ReqIds |-> {}]
  /\ results = [r \in ReqIds |-> <<>>]
  /\ posts = [r \in ReqIds |-> <<>>]
  /\ inflight = [r \in ReqIds |-> NoDelivery]
  /\ resp = [r \in ReqIds |-> NoResp]

Init ==
  /\ users \in Registries
  /\ githubSecret \in BOOLEAN
  /\ gitlabToken \in {Undef, TheToken}
  /\ allowSelf \in BOOLEAN
  /\ NoRequests
  /\ probe = NoProbe
  /\ proc = "listening"
  /\ env = UsersConfigStr(users)
  /\ program = "index.js"

\* res.json(result) / res.status(401).json(...)
Json(result) == [status |-> 200, body |-> result]
Unauthorized(msg) == [status |-> 401, body |-> [error |-> msg]]

PrLabel(source) == IF source = "github" THEN "PR" ELSE "MR"

\* A POST to /webhook/github reaches the server.
PostGitHub(r) ==
  /\ proc = "listening"
  /\ pc[r] = "idle"
  /\ \E b \in GitHubBodies, sig \in SignatureHeaders :
       /\ req' = [req EXCEPT ![r] = [source |-> "github", body |-> b]]
       /\ header' = [header EXCEPT ![r] = sig]
  /\ pc' = [pc EXCEPT ![r] = "verify"]
  /\ UNCHANGED <<config, probe, proc, env, called, event, prOwner, mentionedUsers, notifiedUsers,
                 results, posts, inflight, resp>>

\* A POST to /webhook/gitlab reaches the server.
PostGitLab(r) ==
  /\ proc = "listening"
  /\ pc[r] = "idle"
  /\ \E b \in GitLabBodies, tok \in TokenHeaders :
       /\ req' = [req EXCEPT ![r] = [source |-> "gitlab", body |-> b]]
       /\ header' = [header EXCEPT ![r] = tok]
  /\ pc' = [pc EXCEPT ![r] = "verify"]
  /\ UNCHANGED <<config, probe, proc, env, called, event, prOwner, mentionedUsers, notifiedUsers,
                 results, posts, inflight, resp>>

\* app.post('/webhook/github'): the signature check.  A throw inside the
\* async handler rejects its promise and no response is written.
GitHubHandler(r) ==
  /\ pc[r] = "verify"
  /\ req[r].source = "github"
  /\ LET verdict == verifyGitHubSignature(req[r].body, header[r])
     IN IF verdict = "true"
        THEN /\ pc' = [pc EXCEPT ![r] = "merge"]
             /\ header' = [header EXCEPT ![r] = Accepted]
             /\ resp' = resp
        ELSE IF verdict = "false"
        THEN /\ pc' = [pc EXCEPT ![r] = "done"]
             /\ resp' = [resp EXCEPT ![r] = Unauthorized("Invalid signature")]
             /\ header' = header
        ELSE /\ pc' = [pc EXCEPT ![r] = "threw"]
             /\ UNCHANGED <<resp, header>>
  /\ UNCHANGED <<config, probe, proc, env, req, called, event, prOwner, mentionedUsers,
                 notifiedUsers, results, posts, inflight>>

\* app.post('/webhook/gitlab'): the token check.
GitLabHandler(r) ==
  /\ pc[r] = "verify"
  /\ req[r].source = "gitlab"
  /\ IF verifyGitLabToken(header[r])
     THEN /\ pc' = [pc EXCEPT ![r] = "merge"]
          /\ header' = [header EXCEPT ![r] = Accepted]
          /\ resp' = resp
     ELSE /\ pc' = [pc EXCEPT ![r] = "done"]
          /\ resp' = [resp EXCEPT ![r] = Unauthorized("Invalid token")]
          /\ header' = header
  /\ UNCHANGED <<config, probe, proc, env, req, called, event, prOwner, mentionedUsers,
                 notifiedUsers, results, posts, inflight>>

\* sendToTeams(card, webhookUrl) up to its await: without a URL it returns
\* false at once, otherwise one POST is issued and awaited.
StartSend(r, role, u, mentionedAs) ==
  LET url == users[u].teamsWebhookUrl
      posted == url # ""
  IN /\ inflight' = [inflight EXCEPT ![r] =
                       [role |-> role, user |-> u, url |-> url,
                        mentionedAs |-> mentionedAs, posted |-> posted]]
     /\ posts' = [posts EXCEPT ![r] =
                    IF posted
                    THEN Append(@, [role |-> role, user |-> u, url |-> url,
                                    outcome |-> "pending"])
                    ELSE @]
     /\ pc' = [pc EXCEPT ![r] = "sending"]

\* ------------------------------------------------------------------------
\* processWebhook
\* ------------------------------------------------------------------------
\* Mutant of TryMerge: a merge event without a configured owner does not
\* return but falls through to the review parser.
TryMerge_FallsThrough(r) ==
  /\ pc[r] = "merge"
  /\ LET source == req[r].source
         mergeEvent == IF source = "github"
                       THEN parseGitHubMergeEvent(req[r].body)
                       ELSE parseGitLabMergeEvent(req[r].body)
         owner == findPROwner(source, mergeEvent.prAuthor)
     IN /\ called' = [called EXCEPT ![r] =
                        Append(@, IF source = "github"
                                  THEN "parseGitHubMergeEvent"
                                  ELSE "parseGitLabMergeEvent")]
        /\ IF mergeEvent.type = "none"
           THEN /\ pc' = [pc EXCEPT ![r] = "review"]
                /\ UNCHANGED <<event, prOwner, posts, inflight, resp>>
           ELSE /\ event' = [event EXCEPT ![r] = mergeEvent]
                /\ prOwner' = [prOwner EXCEPT ![r] = owner]
                /\ resp' = resp
                /\ IF owner # 0
                   THEN StartSend(r, "merge", owner, <<>>)
                   ELSE /\ pc' = [pc EXCEPT ![r] = "review"]
                        /\ UNCHANGED <<posts, inflight>>
  /\ UNCHANGED <<config, probe, proc, env, req, header, mentionedUsers, notifiedUsers, results>>

\* Mutant of TryMerge: the owner is not notified of a merge they made
\* themselves unless ALLOW_SELF_COMMENTS is 'true'.
TryMerge_SelfSuppressed(r) ==
  /\ pc[r] = "merge"
  /\ LET source == req[r].source
         mergeEvent == IF source = "github"
                       THEN parseGitHubMergeEvent(req[r].body)
                       ELSE parseGitLabMergeEvent(req[r].body)
         owner == findPROwner(source, mergeEvent.prAuthor)
     IN /\ called' = [called EXCEPT ![r] =
                        Append(@, IF source = "github"
                                  THEN "parseGitHubMergeEvent"
                                  ELSE "parseGitLabMergeEvent")]
        /\ IF mergeEvent.type = "none"
           THEN /\ pc' = [pc EXCEPT ![r] = "review"]
                /\ UNCHANGED <<event, prOwner, posts, inflight, resp>>
           ELSE /\ event' = [event EXCEPT ![r] = mergeEvent]
                /\ prOwner' = [prOwner EXCEPT ![r] = owner]
                /\ IF /\ owner # 0
                      /\ \/ allowSelf
                         \/ ~isCommentAuthor(users[owner], source,
                                             mergeEvent.mergedBy)
                   THEN /\ StartSend(r, "merge", owner, <<>>)
                        /\ resp' = resp
                   ELSE /\ pc' = [pc EXCEPT ![r] = "done"]
                        /\ resp' = [resp EXCEPT ![r] =
                             Json([processed |-> FALSE,
                                   reason |-> <<PrLabel(source),
                                                "author not configured">>])]
                        /\ UNCHANGED <<posts, inflight>>
  /\ UNCHANGED <<config, probe, proc, env, req, header, mentionedUsers, notifiedUsers, results>>

\* Lines 719-741: the merge parser and the merge branch.
TryMerge(r) ==
  /\ pc[r] = "merge"
  /\ LET source == req[r].source
         mergeEvent == IF source = "github"
                       THEN parseGitHubMergeEvent(req[r].body)
                       ELSE parseGitLabMergeEvent(req[r].body)
         owner == findPROwner(source, mergeEvent.prAuthor)
     IN /\ called' = [called EXCEPT ![r] =
                        Append(@, IF source = "github"
                                  THEN "parseGitHubMergeEvent"
                                  ELSE "parseGitLabMergeEvent")]
        /\ IF mergeEvent.type = "none"
           THEN /\ pc' = [pc EXCEPT ![r] = "review"]
                /\ UNCHANGED <<event, prOwner, posts, inflight, resp>>
           ELSE /\ event' = [event EXCEPT ![r] = mergeEvent]
                /\ prOwner' = [prOwner EXCEPT ![r] = owner]
                /\ IF owner # 0
                   THEN /\ StartSend(r, "merge", owner, <<>>)
                        /\ resp' = resp
                   ELSE /\ pc' = [pc EXCEPT ![r] = "done"]
                        /\ resp' = [resp EXCEPT ![r] =
                             Json([processed |-> FALSE,
                                   reason |-> <<PrLabel(source),
                                                "author not configured">>])]
                        /\ UNCHANGED <<posts, inflight>>
  /\ UNCHANGED <<config, probe, proc, env, req, header, mentionedUsers, notifiedUsers, results>>

\* Mutant of TryReview: without a configured owner the review is delivered
\* to the first entry mentioned in the review body.
TryReview_MentionFallback(r) ==
  /\ pc[r] = "review"
  /\ LET source == req[r].source
         approvalEvent == IF source = "github"
                          THEN parseGitHubReviewEvent(req[r].body)
                          ELSE parseGitLabApprovalEvent(req[r].body)
         owner == findPROwner(source, approvalEvent.prAuthor)
         m == findMentionedUsers(approvalEvent.reviewBody, source)
     IN /\ called' = [called EXCEPT ![r] =
                        Append(@, IF source = "github"
                                  THEN "parseGitHubReviewEvent"
                                  ELSE "parseGitLabApprovalEvent")]
        /\ IF approvalEvent.type = "throw"
           THEN /\ pc' = [pc EXCEPT ![r] = "threw"]
                /\ UNCHANGED <<event, prOwner, posts, inflight, resp>>
           ELSE IF approvalEvent.type = "none"
           THEN /\ pc' = [pc EXCEPT ![r] = "comment"]
                /\ UNCHANGED <<event, prOwner, posts, inflight, resp>>
           ELSE /\ event' = [event EXCEPT ![r] = approvalEvent]
                /\ prOwner' = [prOwner EXCEPT ![r] = owner]
                /\ IF owner # 0
                   THEN /\ StartSend(r, "approval", owner, <<>>)
                        /\ resp' = resp
                   ELSE IF m # <<>>
                   THEN /\ StartSend(r, "approval", m[1].user, <<>>)
                        /\ resp' = resp
                   ELSE /\ pc' = [pc EXCEPT ![r] = "done"]
                        /\ resp' = [resp EXCEPT ![r] =
                             Json([processed |-> FALSE,
                                   reason |-> <<PrLabel(source),
                                                "author not configured">>])]
                        /\ UNCHANGED <<posts, inflight>>
  /\ UNCHANGED <<config, probe, proc, env, req, header, mentionedUsers, notifiedUsers, results>>

\* Lines 743-766: the review/approval parser and the approval branch.
TryReview(r) ==
  /\ pc[r] = "review"
  /\ LET source == req[r].source
         approvalEvent == IF source = "github"
                          THEN parseGitHubReviewEvent(req[r].body)
                          ELSE parseGitLabApprovalEvent(req[r].body)
         owner == findPROwner(source, approvalEvent.prAuthor)
     IN /\ called' = [called EXCEPT ![r] =
                        Append(@, IF source = "github"
                                  THEN "parseGitHubReviewEvent"
                                  ELSE "parseGitLabApprovalEvent")]
        /\ IF approvalEvent.type = "throw"
           THEN /\ pc' = [pc EXCEPT ![r] = "threw"]
                /\ UNCHANGED <<event, prOwner, posts, inflight, resp>>
           ELSE IF approvalEvent.type = "none"
           THEN /\ pc' = [pc EXCEPT ![r] = "comment"]
                /\ UNCHANGED <<event, prOwner, posts, inflight, resp>>
           ELSE /\ event' = [event EXCEPT ![r] = approvalEvent]
                /\ prOwner' = [prOwner EXCEPT ![r] = owner]
                /\ IF owner # 0
                   THEN /\ StartSend(r, "approval", owner, <<>>)
                        /\ resp' = resp
                   ELSE /\ pc' = [pc EXCEPT ![r] = "done"]
                        /\ resp' = [resp EXCEPT ![r] =
                             Json([processed |-> FALSE,
                                   reason |-> <<PrLabel(source),
                                                "author not configured">>])]
                        /\ UNCHANGED <<posts, inflight>>
  /\ UNCHANGED <<config, probe, proc, env, req, header, mentionedUsers, notifiedUsers, results>>

\* Lines 768-794: the comment parsers, owner and mention resolution.
TryComment(r) ==
  /\ pc[r] = "comment"
  /\ LET source == req[r].source
         first == IF source = "github"
                  THEN parseGitHubReviewPayload(req[r].body)
                  ELSE parseGitLabPayload(req[r].body)
         second == source = "github" /\ first.type = "none"
         parsed == IF second THEN parseGitHubPayload(req[r].body) ELSE first
     IN /\ called' = [called EXCEPT ![r] =
                        @ \o (IF source = "github"
                              THEN <<"parseGitHubReviewPayload">>
                              ELSE <<"parseGitLabPayload">>)
                          \o (IF second THEN <<"parseGitHubPayload">>
                              ELSE <<>>)]
        /\ IF parsed.type = "none"
           THEN /\ pc' = [pc EXCEPT ![r] = "done"]
                /\ resp' = [resp EXCEPT ![r] =
                     Json([processed |-> FALSE,
                           reason |-> <<"not a recognized", PrLabel(source),
                                        "event">>])]
                /\ UNCHANGED <<event, prOwner, mentionedUsers>>
           ELSE /\ event' = [event EXCEPT ![r] = parsed]
                /\ prOwner' = [prOwner EXCEPT ![r] =
                                 findPROwner(source, parsed.prAuthor)]
                /\ mentionedUsers' = [mentionedUsers EXCEPT ![r] =
                     findMentionedUsers(parsed.commentBody, source)]
                /\ pc' = [pc EXCEPT ![r] = "owner"]
                /\ resp' = resp
  /\ UNCHANGED <<config, probe, proc, env, req, header, notifiedUsers, results, posts, inflight>>

\* Line 797: prOwner && (allowSelfComments || !isCommentAuthor(prOwner, ...))
ShouldNotifyOwner(r) ==
  /\ prOwner[r] # 0
  /\ \/ allowSelf
     \/ ~isCommentAuthor(users[prOwner[r]], req[r].source,
                         event[r].commentAuthor)

\* Mutant of SkipCommentAuthor: mention matches are not checked for the author.
SkipCommentAuthor_Never(r, user) == FALSE

\* Line 808: !allowSelfComments && isCommentAuthor(user, source, commentAuthor)
SkipCommentAuthor(r, user) ==
  ~allowSelf /\ isCommentAuthor(user, req[r].source, event[r].commentAuthor)

\* Mutant of AlreadyNotified: notifiedUsers is one Set at module level, shared
\* by all requests.
AlreadyNotified_Shared(r, user) ==
  \E q \in ReqIds : user.name \in notifiedUsers[q]

\* Mutant of AlreadyNotified: the de-duplication test is missing.
AlreadyNotified_Never(r, user) == FALSE

\* Mutant of AlreadyNotified: the de-duplication is keyed by the endpoint
\* instead of the name.
AlreadyNotified_ByUrl(r, user) ==
  \E i \in 1..Len(posts[r]) : posts[r][i].url = user.teamsWebhookUrl

\* Line 812: notifiedUsers.has(user.name)
AlreadyNotified(r, user) == user.name \in notifiedUsers[r]

\* Lines 796-803: the owner notification of a comment event.
NotifyOwner(r) ==
  /\ pc[r] = "owner"
  /\ LET owner == prOwner[r]
     IN IF ShouldNotifyOwner(r)
        THEN IF CardThrows(event[r].commentBody)
             THEN /\ pc' = [pc EXCEPT ![r] = "threw"]
                  /\ UNCHANGED <<posts, inflight>>
             ELSE StartSend(r, "comment", owner, <<>>)
        ELSE /\ pc' = [pc EXCEPT ![r] = "mentions"]
             /\ UNCHANGED <<posts, inflight>>
  /\ UNCHANGED <<config, probe, proc, env, req, header, called, event, prOwner, mentionedUsers,
                 notifiedUsers, results, resp>>

\* Lines 806-821: one iteration of the loop over the mention matches.
NotifyMention(r) ==
  /\ pc[r] = "mentions"
  /\ mentionedUsers[r] # <<>>
  /\ LET m == Head(mentionedUsers[r])
         user == users[m.user]
     IN /\ mentionedUsers' = [mentionedUsers EXCEPT ![r] = Tail(@)]
        /\ IF SkipCommentAuthor(r, user)
           THEN UNCHANGED <<pc, posts, inflight>>
           ELSE IF AlreadyNotified(r, user)
           THEN UNCHANGED <<pc, posts, inflight>>
           ELSE StartSend(r, "mention", m.user, m.mentionedAs)
  /\ UNCHANGED <<config, probe, proc, env, req, header, called, event, prOwner, notifiedUsers,
                 results, resp>>

\* Mutant of SendResult: the try/catch around fetch is missing.
SendResult_NoCatch(outcome) ==
  CASE outcome = "ok" -> "true"
    [] outcome = "non2xx" -> "false"
    [] outcome = "neterr" -> "throw"
    [] outcome = "nourl" -> "false"

\* sendToTeams lines 691-709: what the call yields for each outcome of the
\* POST.  A failed fetch is caught and turned into false.
SendResult(outcome) ==
  CASE outcome = "ok" -> "true"
    [] outcome = "non2xx" -> "false"
    [] outcome = "neterr" -> "false"
    [] outcome = "nourl" -> "false"

\* Mutant of sendToTeams: the test on response.ok is missing.
sendToTeams_AnyResponse(webhookUrl, outcome) ==
  IF webhookUrl = "" THEN [posts |-> 0, returns |-> "false"]
  ELSE [posts |-> 1,
        returns |-> IF outcome = "neterr" THEN "false" ELSE "true"]

\* sendToTeams(card, webhookUrl) as one call: the number of POSTs it makes
\* and the value it resolves to, for each outcome of fetch.
sendToTeams(webhookUrl, outcome) ==
  IF webhookUrl = "" THEN [posts |-> 0, returns |-> "false"]
  ELSE [posts |-> 1, returns |-> SendResult(outcome)]

\* The awaited sendToTeams call returns to processWebhook; an exception
\* would propagate out of processWebhook and the route handler.
FetchReturns(r) ==
  /\ pc[r] = "sending"
  /\ \E outcome \in IF inflight[r].posted THEN {"ok", "non2xx", "neterr"}
                    ELSE {"nourl"} :
       LET d == inflight[r]
           sent == SendResult(outcome) = "true"
           name == users[d.user].name
       IN /\ posts' = [posts EXCEPT ![r] =
                         IF d.posted
                         THEN [@ EXCEPT ![Len(@)].outcome = outcome]
                         ELSE @]
          /\ IF SendResult(outcome) = "throw"
             THEN /\ pc' = [pc EXCEPT ![r] = "threw"]
                  /\ UNCHANGED <<results, notifiedUsers, resp>>
             ELSE IF d.role = "merge"
             THEN /\ resp' = [resp EXCEPT ![r] =
                       Json([processed |-> sent, type |-> "merge",
                             user |-> name])]
                  /\ pc' = [pc EXCEPT ![r] = "done"]
                  /\ UNCHANGED <<results, notifiedUsers>>
             ELSE IF d.role = "approval"
             THEN /\ resp' = [resp EXCEPT ![r] =
                       Json([processed |-> sent, type |-> "approval",
                             state |-> event[r].state, user |-> name])]
                  /\ pc' = [pc EXCEPT ![r] = "done"]
                  /\ UNCHANGED <<results, notifiedUsers>>
             ELSE /\ results' = [results EXCEPT ![r] =
                       Append(@, IF d.role = "comment"
                                 THEN [type |-> "comment", user |-> name,
                                       sent |-> sent]
                                 ELSE [type |-> "mention", user |-> name,
                                       mentionedAs |-> d.mentionedAs,
                                       sent |-> sent])]
                  /\ notifiedUsers' = [notifiedUsers EXCEPT ![r] =
                                         @ \cup {name}]
                  /\ pc' = [pc EXCEPT ![r] = "mentions"]
                  /\ resp' = resp
  /\ inflight' = [inflight EXCEPT ![r] = NoDelivery]
  /\ UNCHANGED <<config, probe, proc, env, req, header, called, event, prOwner, mentionedUsers>>

\* Mutant of Finish: the empty results array is not told apart.
Finish_AlwaysList(r) ==
  /\ pc[r] = "mentions"
  /\ mentionedUsers[r] = <<>>
  /\ pc' = [pc EXCEPT ![r] = "done"]
  /\ resp' = [resp EXCEPT ![r] =
       Json([processed |-> TRUE, notifications |-> results[r]])]
  /\ UNCHANGED <<config, probe, proc, env, req, header, called, event, prOwner,
                 mentionedUsers, notifiedUsers, results, posts, inflight>>

\* Mutant of Finish: processed reports whether some delivery succeeded.
Finish_AnySent(r) ==
  /\ pc[r] = "mentions"
  /\ mentionedUsers[r] = <<>>
  /\ pc' = [pc EXCEPT ![r] = "done"]
  /\ resp' = [resp EXCEPT ![r] =
       IF Len(results[r]) = 0
       THEN Json([processed |-> FALSE,
                  reason |-> <<"no configured users to notify">>])
       ELSE Json([processed |-> \E i \in 1..Len(results[r]) :
                                  results[r][i].sent,
                  notifications |-> results[r]])]
  /\ UNCHANGED <<config, probe, proc, env, req, header, called, event, prOwner,
                 mentionedUsers, notifiedUsers, results, posts, inflight>>

\* Lines 823-828: the result of a comment event.
Finish(r) ==
  /\ pc[r] = "mentions"
  /\ mentionedUsers[r] = <<>>
  /\ pc' = [pc EXCEPT ![r] = "done"]
  /\ resp' = [resp EXCEPT ![r] =
       IF Len(results[r]) = 0
       THEN Json([processed |-> FALSE,
                  reason |-> <<"no configured users to notify">>])
       ELSE Json([processed |-> TRUE, notifications |-> results[r]])]
  /\ UNCHANGED <<config, probe, proc, env, req, header, called, event, prOwner, mentionedUsers,
                 notifiedUsers, results, posts, inflight>>

Next ==
  \E r \in Serial :
     \/ PostGitHub(r)
     \/ PostGitLab(r)
     \/ GitHubHandler(r)
     \/ GitLabHandler(r)
     \/ TryMerge(r)
     \/ TryReview(r)
     \/ TryComment(r)
     \/ NotifyOwner(r)
     \/ NotifyMention(r)
     \/ FetchReturns(r)
     \/ Finish(r)

Spec == Init /\ [][Next]_vars

\* ------------------------------------------------------------------------
\* Direct applications of the resolver and card functions
\* ------------------------------------------------------------------------
\* Longest body handed to the card functions.
MaxBodyLen == 502

S_NilayBarde ==
  <<"N", "i", "l", "a", "y", "B", "a", "r", "d", "e">>
S_nilay_barde ==
  <<"n", "i", "l", "a", "y", ".", "b", "a", "r", "d", "e">>
S_frontend_team ==
  <<"f", "r", "o", "n", "t", "e", "n", "d", "-", "t", "e", "a", "m">>
S_bet_squad_web ==
  <<"b", "e", "t", "-", "s", "q", "u", "a", "d", "-", "w", "e", "b">>
S_johndoe ==
  <<"j", "o", "h", "n", "d", "o", "e">>
S_john_doe ==
  <<"j", "o", "h", "n", ".", "d", "o", "e">>

\* The two entries of the README's USERS_CONFIG example (the GitLab ids are
\* not read by the functions applied here).
UserNilay ==
  [name |-> "nilay", teamsWebhookUrl |-> "urlN", ghName |-> Str(S_NilayBarde),
   glName |-> Str(S_nilay_barde), glId |-> Num(1),
   aliases |-> <<S_frontend_team, S_bet_squad_web>>]
UserJohn ==
  [name |-> "john", teamsWebhookUrl |-> "urlJ", ghName |-> Str(S_johndoe),
   glName |-> Str(S_john_doe), glId |-> Num(2), aliases |-> <<>>]

FnRegistries == {<<UserNilay>>, <<UserNilay, UserJohn>>, <<UserJohn, UserNilay>>}

\* String.prototype.toUpperCase, used to vary the letter case of the inputs.
UpperChar(c) ==
  IF \E i \in 1..26 : LowerAlphabet[i] = c
  THEN UpperAlphabet[CHOOSE i \in 1..26 : LowerAlphabet[i] = c]
  ELSE c
ToUpperCase(s) == [i \in 1..Len(s) |-> UpperChar(s[i])]
Capitalized(s) == [i \in 1..Len(s) |-> IF i = 1 THEN UpperChar(s[i]) ELSE s[i]]

ProbeNames ==
  {S_NilayBarde, S_nilay_barde, S_frontend_team, S_bet_squad_web, S_johndoe,
   S_john_doe}
Casings(n) == {n, ToLowerCase(n), ToUpperCase(n), Capitalized(n)}
Prefixes == {<<>>, <<"c", "c", " ">>}
Suffixes == {<<>>, <<" ">>, <<"s">>, <<"-", "x">>, <<"_">>, <<"!">>, <<"1">>}

B_FrontendTeamSpace ==
  <<"@", "F", "r", "o", "n", "t", "e", "n", "d", "-", "T", "e", "a", "m",
    " ">>
B_frontend_teams ==
  <<"@", "f", "r", "o", "n", "t", "e", "n", "d", "-", "t", "e", "a", "m",
    "s">>
B_nilayXbarde ==
  <<"@", "n", "i", "l", "a", "y", "X", "b", "a", "r", "d", "e">>
B_bet_then_fe ==
  <<"@", "b", "e", "t", "-", "s", "q", "u", "a", "d", "-", "w", "e", "b",
    " ", "@", "f", "r", "o", "n", "t", "e", "n", "d", "-", "t", "e", "a",
    "m">>
B_fe_then_Nilay ==
  <<"@", "f", "r", "o", "n", "t", "e", "n", "d", "-", "t", "e", "a", "m",
    " ", "@", "N", "i", "l", "a", "y", "B", "a", "r", "d", "e">>

\* Comment bodies for findMentionedUsers: every watch name of the README
\* entries in four letter cases, after nothing or text, followed by nothing,
\* a space, a letter, a hyphen, an underscore, punctuation or a digit.
MentionBodies ==
  {pre \o <<"@">> \o c \o suf :
     pre \in Prefixes, c \in UNION {Casings(n) : n \in ProbeNames},
     suf \in Suffixes}
  \cup {B_FrontendTeamSpace, B_frontend_teams, B_nilayXbarde, B_fe_then_Nilay,
        B_bet_then_fe,
        S_frontend_team, <<"@">> \o SubSeq(S_frontend_team, 1, 8)}

\* Body of length n whose characters vary with the position.
BodyOfLen(n) == [i \in 1..n |-> LowerAlphabet[(i % 26) + 1]]

FnInit ==
  /\ users \in FnRegistries
  /\ githubSecret = FALSE
  /\ gitlabToken = Undef
  /\ allowSelf = FALSE
  /\ NoRequests
  /\ probe = NoProbe
  /\ proc = "listening"
  /\ env = UsersConfigStr(users)
  /\ program = "index.js"

\* findMentionedUsers applied to a comment body, and the mention card that
\* processWebhook builds for each match (line 815).
ProbeMentions ==
  /\ probe = NoProbe
  /\ \E source \in {"github", "gitlab"}, body \in MentionBodies :
       LET out == findMentionedUsers(Str(body), source)
       IN probe' = [fn |-> "findMentionedUsers", source |-> source,
                    body |-> body, out |-> out,
                    cards |-> [i \in 1..Len(out) |->
                                 createMentionCard(body, out[i].mentionedAs)]]
  /\ UNCHANGED <<config, proc, env, pc, req, header, called, event, prOwner,
                 mentionedUsers, notifiedUsers, results, posts, inflight, resp>>

\* One of the three card builders applied to a body of a given length.
ProbeCard ==
  /\ probe = NoProbe
  /\ \E n \in 0..MaxBodyLen :
       LET body == BodyOfLen(n)
       IN \/ probe' = [fn |-> "createAdaptiveCard", body |-> body,
                       out |-> createAdaptiveCard(body)]
          \/ probe' = [fn |-> "createMentionCard", body |-> body,
                       out |-> createMentionCard(body, S_frontend_team)]
          \/ probe' = [fn |-> "createApprovalCard", body |-> body,
                       out |-> createApprovalCard(Str(body))]
  /\ UNCHANGED <<config, proc, env, pc, req, header, called, event, prOwner,
                 mentionedUsers, notifiedUsers, results, posts, inflight, resp>>

\* sendToTeams called with an endpoint URL (or none) and fetch ending in
\* each of its outcomes.
ProbeSend ==
  /\ probe = NoProbe
  /\ \E url \in {"", "urlN", "urlJ"}, outcome \in {"ok", "non2xx", "neterr"} :
       probe' = [fn |-> "sendToTeams", url |-> url, outcome |-> outcome,
                 out |-> sendToTeams(url, outcome)]
  /\ UNCHANGED <<config, proc, env, pc, req, header, called, event, prOwner,
                 mentionedUsers, notifiedUsers, results, posts, inflight, resp>>

FnNext == ProbeMentions \/ ProbeCard \/ ProbeSend

FnSpec == FnInit /\ [][FnNext]_vars

\* ------------------------------------------------------------------------
\* Two requests handled concurrently
\* ------------------------------------------------------------------------
\* Node runs one handler at a time but switches between handlers at every
\* await: the steps of two requests interleave at the granularity of the
\* actions above.
ConcRegistries ==
  {<<UserAlice, UserBob>>, <<UserDan, UserAlice>>, <<UserBob, UserCarol>>}

ConcGitHubBodies ==
  {[GHBase EXCEPT !.action = "created", !.hasPR = TRUE, !.prLogin = Str(S_AL),
                  !.hasComment = TRUE, !.commentLogin = Str(S_zz),
                  !.commentBody = B_atFeBo],
   [GHBase EXCEPT !.action = "created", !.hasPR = TRUE, !.prLogin = Str(S_AL),
                  !.hasComment = TRUE, !.commentLogin = Str(S_al),
                  !.commentBody = B_atAL],
   [GHBase EXCEPT !.action = "created", !.hasPR = TRUE, !.prLogin = Str(S_bo),
                  !.hasComment = TRUE, !.commentLogin = Str(S_zz),
                  !.commentBody = Null],
   [GHBase EXCEPT !.action = "closed", !.hasPR = TRUE, !.merged = TRUE,
                  !.prLogin = Str(S_AL)],
   [GHBase EXCEPT !.action = "submitted", !.hasPR = TRUE, !.hasReview = TRUE,
                  !.reviewState = Str(S_APPROVED), !.prLogin = Str(S_bo)]}

ConcGitLabBodies ==
  {[GLBase EXCEPT !.object_kind = "note", !.noteableType = "MergeRequest",
                  !.hasMR = TRUE, !.mrAuthorId = Num(1),
                  !.username = Str(S_bo), !.note = B_atAL],
   [GLBase EXCEPT !.object_kind = "note", !.noteableType = "Issue",
                  !.hasMR = TRUE, !.mrAuthorId = Num(1),
                  !.username = Str(S_zz), !.note = B_atFeBo],
   [GLBase EXCEPT !.object_kind = "merge_request", !.oaAction = "merge",
                  !.oaAuthorId = Num(2), !.username = Str(S_zz)]}

ConcInit ==
  /\ users \in ConcRegistries
  /\ githubSecret = FALSE
  /\ gitlabToken = Undef
  /\ allowSelf \in BOOLEAN
  /\ NoRequests
  /\ probe = NoProbe
  /\ proc = "listening"
  /\ env = UsersConfigStr(users)
  /\ program = "index.js"

\* A POST reaches either route while another request may be in progress.
ConcPost(r) ==
  /\ proc = "listening"
  /\ pc[r] = "idle"
  /\ \/ \E b \in ConcGitHubBodies :
          req' = [req EXCEPT ![r] = [source |-> "github", body |-> b]]
     \/ \E b \in ConcGitLabBodies :
          req' = [req EXCEPT ![r] = [source |-> "gitlab", body |-> b]]
  /\ pc' = [pc EXCEPT ![r] = "verify"]
  /\ UNCHANGED <<config, probe, proc, env, header, called, event, prOwner, mentionedUsers,
                 notifiedUsers, results, posts, inflight, resp>>

ConcNext ==
  \E r \in ReqIds :
     \/ ConcPost(r)
     \/ GitHubHandler(r)
     \/ GitLabHandler(r)
     \/ TryMerge(r)
     \/ TryReview(r)
     \/ TryComment(r)
     \/ NotifyOwner(r)
     \/ NotifyMention(r)
     \/ FetchReturns(r)
     \/ Finish(r)

ConcSpec == ConcInit /\ [][ConcNext]_vars

\* ------------------------------------------------------------------------
\* Startup
\* ------------------------------------------------------------------------
\* Largest number of entries in the USERS_CONFIG arrays the startup reads.
MaxBootUsers == 2

\* Entries without a name and without a teamsWebhookUrl ('' stands for a
\* missing or empty field: both are falsy).
UserNoName == [UserCarol EXCEPT !.name = ""]
UserNoUrl == [UserBob EXCEPT !.teamsWebhookUrl = ""]

BootPool == {UserAlice, UserBob, UserNoName, UserNoUrl}

\* What USERS_CONFIG holds at startup: nothing, the empty string, a text
\* that is not JSON, JSON that is not an array (an object, null, a number),
\* and arrays of 0..MaxBootUsers entries.
UsersConfigValues ==
  {EnvUnset, EnvEmpty}
  \cup {EnvText([j |-> k]) : k \in {"garbage", "object", "null", "number"}}
  \cup {EnvText([j |-> "array", items |-> us]) :
          us \in UNION {[1..n -> BootPool] : n \in 0..MaxBootUsers}}

\* !usersConfigStr
EnvFalsy(e) == e.k \in {"unset", "empty"}

\* JSON.parse(usersConfigStr) throws SyntaxError on a text that is not JSON.
JSONParseThrows(doc) == doc.j = "garbage"

\* Mutant of UserLacksField: the test on teamsWebhookUrl is missing.
UserLacksField_NameOnly(user) == user.name = ""

\* Lines 37-46: !user.name, then !user.teamsWebhookUrl.
UserLacksField(user) == user.name = "" \/ user.teamsWebhookUrl = ""

BootInit ==
  /\ users = <<>>
  /\ githubSecret = FALSE
  /\ gitlabToken = Undef
  /\ allowSelf = FALSE
  /\ NoRequests
  /\ probe = NoProbe
  /\ proc = "loading"
  /\ env \in UsersConfigValues
  /\ program = "index.js"

\* Lines 19-34: read and parse USERS_CONFIG; process.exit(1) when it is
\* missing, not JSON, not an array or empty.
LoadUsers ==
  /\ proc = "loading"
  /\ IF EnvFalsy(env) THEN proc' = "exited" /\ users' = users
     ELSE IF JSONParseThrows(env.doc) THEN proc' = "exited" /\ users' = users
     ELSE IF env.doc.j # "array" THEN proc' = "exited" /\ users' = users
     ELSE /\ users' = env.doc.items
          /\ proc' = IF Len(env.doc.items) = 0 THEN "exited"
                      ELSE "validating"
  /\ UNCHANGED <<githubSecret, gitlabToken, allowSelf, program, probe, env, pc, req,
                 header, called, event, prOwner, mentionedUsers,
                 notifiedUsers, results, posts, inflight, resp>>

\* Lines 36-47: users.forEach exits at the first entry lacking a field.
ValidateUsers ==
  /\ proc = "validating"
  /\ proc' = IF \E i \in 1..Len(users) : UserLacksField(users[i])
             THEN "exited" ELSE "validated"
  /\ UNCHANGED <<config, probe, env, pc, req, header, called, event, prOwner,
                 mentionedUsers, notifiedUsers, results, posts, inflight, resp>>

\* Lines 62-873: the routes are registered and app.listen is called.
Listen ==
  /\ proc = "validated"
  /\ proc' = "listening"
  /\ UNCHANGED <<config, probe, env, pc, req, header, called, event, prOwner,
                 mentionedUsers, notifiedUsers, results, posts, inflight, resp>>

BootNext ==
  \/ LoadUsers
  \/ ValidateUsers
  \/ Listen
  \/ \E r \in Serial : PostGitHub(r) \/ PostGitLab(r)

BootSpec == BootInit /\ [][BootNext]_vars

\* ------------------------------------------------------------------------
\* The single-user variants (src/unnamed/part_001 and src/unnamed/part_002)
\* ------------------------------------------------------------------------
\* Both variants serve one configured user.  Their configuration is held in
\* the one entry of users: ghName is config.github.username, glName is
\* config.gitlab.username, glId is config.gitlab.userId, aliases is
\* MENTION_ALIASES and teamsWebhookUrl is config.teamsWebhookUrl.  The
\* parsers, the signature and token checks, the route handlers and the cards
\* are the same code as in src/index.js.
SinglePrograms == {"part_001", "part_002"}

SingleConfigs == {<<UserAlice>>, <<UserBob>>, <<UserCarol>>}

SingleInit ==
  /\ users \in SingleConfigs
  /\ githubSecret \in BOOLEAN
  /\ gitlabToken \in {Undef, TheToken}
  /\ allowSelf \in BOOLEAN
  /\ NoRequests
  /\ probe = NoProbe
  /\ proc = "listening"
  /\ env = EnvUnset
  /\ program \in SinglePrograms

\* x.toString() throws a TypeError when x is undefined or null.
ToStringThrows(val) == val.t \in {"undef", "null"}

\* isOwnPullRequest(source, prAuthor): prAuthor is the string the caller
\* obtained with toString().
isOwnPullRequest(source, prAuthor) ==
  CASE source = "github" ->
         ToLowerCase(prAuthor) = ToLowerCase(Get(users[1].ghName, Str(<<>>)).v)
    [] source = "gitlab" -> prAuthor = ToStr(users[1].glId)
    [] OTHER -> FALSE

\* isMentioned(commentBody, source) of part_002: the first of the username
\* and the aliases that the body mentions, <<>> for false.
isMentioned(commentBody, source) ==
  IF ~Truthy(commentBody) THEN <<>>
  ELSE LET allNames == AllNames(users[1], source)
           k == FirstMentioned(allNames, ToStr(commentBody))
       IN IF k = 0 THEN <<>> ELSE allNames[k]

\* processWebhook of part_002, merge branch.
SingleMerge(r) ==
  /\ program = "part_002"
  /\ pc[r] = "merge"
  /\ LET source == req[r].source
         mergeEvent == IF source = "github"
                       THEN parseGitHubMergeEvent(req[r].body)
                       ELSE parseGitLabMergeEvent(req[r].body)
     IN /\ called' = [called EXCEPT ![r] =
                        Append(@, IF source = "github"
                                  THEN "parseGitHubMergeEvent"
                                  ELSE "parseGitLabMergeEvent")]
        /\ IF mergeEvent.type = "none"
           THEN /\ pc' = [pc EXCEPT ![r] = "review"]
                /\ UNCHANGED <<event, posts, inflight, resp>>
           ELSE /\ event' = [event EXCEPT ![r] = mergeEvent]
                /\ IF ToStringThrows(mergeEvent.prAuthor)
                   THEN /\ pc' = [pc EXCEPT ![r] = "threw"]
                        /\ UNCHANGED <<posts, inflight, resp>>
                   ELSE IF isOwnPullRequest(source, ToStr(mergeEvent.prAuthor))
                   THEN /\ StartSend(r, "merge", 1, <<>>)
                        /\ resp' = resp
                   ELSE /\ pc' = [pc EXCEPT ![r] = "done"]
                        /\ resp' = [resp EXCEPT ![r] =
                             Json([processed |-> FALSE,
                                   reason |-> <<"not your PR/MR merge">>])]
                        /\ UNCHANGED <<posts, inflight>>
  /\ UNCHANGED <<config, probe, proc, env, req, header, prOwner,
                 mentionedUsers, notifiedUsers, results>>

\* processWebhook of part_002, approval branch.
SingleReview(r) ==
  /\ program = "part_002"
  /\ pc[r] = "review"
  /\ LET source == req[r].source
         approvalEvent == IF source = "github"
                          THEN parseGitHubReviewEvent(req[r].body)
                          ELSE parseGitLabApprovalEvent(req[r].body)
     IN /\ called' = [called EXCEPT ![r] =
                        Append(@, IF source = "github"
                                  THEN "parseGitHubReviewEvent"
                                  ELSE "parseGitLabApprovalEvent")]
        /\ IF approvalEvent.type = "throw"
           THEN /\ pc' = [pc EXCEPT ![r] = "threw"]
                /\ UNCHANGED <<event, posts, inflight, resp>>
           ELSE IF approvalEvent.type = "none"
           THEN /\ pc' = [pc EXCEPT ![r] = "comment"]
                /\ UNCHANGED <<event, posts, inflight, resp>>
           ELSE /\ event' = [event EXCEPT ![r] = approvalEvent]
                /\ IF ToStringThrows(approvalEvent.prAuthor)
                   THEN /\ pc' = [pc EXCEPT ![r] = "threw"]
                        /\ UNCHANGED <<posts, inflight, resp>>
                   ELSE IF isOwnPullRequest(source,
                                            ToStr(approvalEvent.prAuthor))
                   THEN /\ StartSend(r, "approval", 1, <<>>)
                        /\ resp' = resp
                   ELSE /\ pc' = [pc EXCEPT ![r] = "done"]
                        /\ resp' = [resp EXCEPT ![r] =
                             Json([processed |-> FALSE,
                                   reason |-> <<"not your PR/MR approval">>])]
                        /\ UNCHANGED <<posts, inflight>>
  /\ UNCHANGED <<config, probe, proc, env, req, header, prOwner,
                 mentionedUsers, notifiedUsers, results>>

\* processWebhook of part_001 (the whole function) and the comment branch of
\* processWebhook of part_002: the comment parsers, the self-comment test,
\* the ownership test and, in part_002, the mention test.
SingleComment(r) ==
  /\ \/ program = "part_001" /\ pc[r] = "merge"
     \/ program = "part_002" /\ pc[r] = "comment"
  /\ LET source == req[r].source
         first == IF source = "github"
                  THEN parseGitHubReviewPayload(req[r].body)
                  ELSE parseGitLabPayload(req[r].body)
         second == source = "github" /\ first.type = "none"
         parsed == IF second THEN parseGitHubPayload(req[r].body) ELSE first
         mentionedAs == IF program = "part_002"
                        THEN isMentioned(parsed.commentBody, source)
                        ELSE <<>>
     IN /\ called' = [called EXCEPT ![r] =
                        @ \o (IF source = "github"
                              THEN <<"parseGitHubReviewPayload">>
                              ELSE <<"parseGitLabPayload">>)
                          \o (IF second THEN <<"parseGitHubPayload">>
                              ELSE <<>>)]
        /\ IF parsed.type = "none"
           THEN /\ pc' = [pc EXCEPT ![r] = "done"]
                /\ resp' = [resp EXCEPT ![r] =
                     Json([processed |-> FALSE,
                           reason |-> IF program = "part_001"
                                      THEN <<"not a PR/MR comment">>
                                      ELSE <<"not a recognized PR/MR event">>])]
                /\ UNCHANGED <<event, posts, inflight>>
           ELSE /\ event' = [event EXCEPT ![r] = parsed]
                /\ IF ~allowSelf /\ ToStringThrows(parsed.commentAuthor)
                   THEN /\ pc' = [pc EXCEPT ![r] = "threw"]
                        /\ UNCHANGED <<posts, inflight, resp>>
                   ELSE IF /\ ~allowSelf
                           /\ isOwnPullRequest(source,
                                               ToStr(parsed.commentAuthor))
                   THEN /\ pc' = [pc EXCEPT ![r] = "done"]
                        /\ resp' = [resp EXCEPT ![r] =
                             Json([processed |-> FALSE,
                                   reason |-> <<"self-comment">>])]
                        /\ UNCHANGED <<posts, inflight>>
                   ELSE IF ToStringThrows(parsed.prAuthor)
                   THEN /\ pc' = [pc EXCEPT ![r] = "threw"]
                        /\ UNCHANGED <<posts, inflight, resp>>
                   ELSE IF isOwnPullRequest(source, ToStr(parsed.prAuthor))
                   THEN IF CardThrows(parsed.commentBody)
                        THEN /\ pc' = [pc EXCEPT ![r] = "threw"]
                             /\ UNCHANGED <<posts, inflight, resp>>
                        ELSE /\ StartSend(r, "comment", 1, <<>>)
                             /\ resp' = resp
                   ELSE IF mentionedAs # <<>>
                   THEN /\ StartSend(r, "mention", 1, mentionedAs)
                        /\ resp' = resp
                   ELSE /\ pc' = [pc EXCEPT ![r] = "done"]
                        /\ resp' = [resp EXCEPT ![r] =
                             Json([processed |-> FALSE,
                                   reason |-> IF program = "part_001"
                                              THEN <<"not your PR/MR">>
                                              ELSE <<"not your PR/MR and not mentioned">>])]
                        /\ UNCHANGED <<posts, inflight>>
  /\ UNCHANGED <<config, probe, proc, env, req, header, prOwner,
                 mentionedUsers, notifiedUsers, results>>

\* The awaited sendToTeams(card) returns and processWebhook returns
\* { processed: sent, ... }, which the route handler writes out.
SingleFetchReturns(r) ==
  /\ program \in SinglePrograms
  /\ pc[r] = "sending"
  /\ \E outcome \in IF inflight[r].posted THEN {"ok", "non2xx", "neterr"}
                    ELSE {"nourl"} :
       LET d == inflight[r]
           sent == SendResult(outcome) = "true"
       IN /\ posts' = [posts EXCEPT ![r] =
                         IF d.posted
                         THEN [@ EXCEPT ![Len(@)].outcome = outcome]
                         ELSE @]
          /\ resp' = [resp EXCEPT ![r] =
               Json([processed |-> sent,
                     type |-> IF program = "part_001" THEN "data"
                              ELSE d.role])]
  /\ pc' = [pc EXCEPT ![r] = "done"]
  /\ inflight' = [inflight EXCEPT ![r] = NoDelivery]
  /\ UNCHANGED <<config, probe, proc, env, req, header, called, event,
                 prOwner, mentionedUsers, notifiedUsers, results>>

SingleNext ==
  \E r \in Serial :
     \/ PostGitHub(r)
     \/ PostGitLab(r)
     \/ GitHubHandler(r)
     \/ GitLabHandler(r)
     \/ SingleMerge(r)
     \/ SingleReview(r)
     \/ SingleComment(r)
     \/ SingleFetchReturns(r)

SingleSpec == SingleInit /\ [][SingleNext]_vars

\* ------------------------------------------------------------------------
\* Vocabulary of the properties
\* ------------------------------------------------------------------------
Users == 1..Len(users)

CommentEvent(r) == event[r].type = "comment"

\* Number of POSTs request r has issued to registry entry u.
DeliveriesTo(r, u) ==
  Cardinality({i \in 1..Len(posts[r]) : posts[r][i].user = u})

\* Entry u has a watch-name that matches the comment body of request r.
Mentioned(r, u) ==
  LET m == findMentionedUsers(event[r].commentBody, req[r].source)
  IN \E i \in 1..Len(m) : m[i].user = u

\* The platform username entry u is configured with for request r's source
\* ('' when it has none).
PlatformUsername(r, u) ==
  LET n == IF req[r].source = "github" THEN users[u].ghName
           ELSE users[u].glName
  IN IF n.t = "str" THEN n.v ELSE <<>>

\* The comment author of request r is entry u: the usernames are equal up to
\* letter case.
SameAuthor(r, u) ==
  ToLowerCase(ToStr(event[r].commentAuthor))
    = ToLowerCase(PlatformUsername(r, u))

\* ------------------------------------------------------------------------
\* C1
\* ------------------------------------------------------------------------
\* C1 as stated: in a comment event no registry entry gets more than one
\* delivery, and an entry that is both the resolved owner and matched by a
\* mention gets exactly one delivery, the owner variant.
C1_AsStated ==
  \A r \in ReqIds :
     CommentEvent(r) =>
       /\ \A u \in Users : DeliveriesTo(r, u) <= 1
       /\ pc[r] = "done" =>
            \A u \in Users :
               (u = prOwner[r] /\ Mentioned(r, u)) =>
                  /\ DeliveriesTo(r, u) = 1
                  /\ \A i \in 1..Len(posts[r]) :
                        posts[r][i].user = u => posts[r][i].role = "comment"

\* C1 (amended): in a comment event no registry entry gets more than one
\* delivery; an entry that is both the resolved owner and matched by a
\* mention gets exactly one delivery, the owner variant and never a mention,
\* unless it is the comment author while ALLOW_SELF_COMMENTS is not 'true',
\* in which case it gets none.
C1_OwnerOnce ==
  \A r \in ReqIds :
     CommentEvent(r) =>
       /\ \A u \in Users : DeliveriesTo(r, u) <= 1
       /\ \A i \in 1..Len(posts[r]) :
             posts[r][i].user = prOwner[r] => posts[r][i].role = "comment"
       /\ pc[r] = "done" =>
            \A u \in Users :
               (u = prOwner[r] /\ Mentioned(r, u)) =>
                  DeliveriesTo(r, u)
                    = IF allowSelf \/ ~SameAuthor(r, u) THEN 1 ELSE 0

\* A finished comment event whose owner is also mentioned, got the owner
\* card, and where another entry got a mention card.
C1_Witness ==
  \E r \in ReqIds :
     /\ pc[r] = "done"
     /\ CommentEvent(r)
     /\ prOwner[r] # 0
     /\ Mentioned(r, prOwner[r])
     /\ DeliveriesTo(r, prOwner[r]) = 1
     /\ Len(posts[r]) = 2
     /\ posts[r][1].role = "comment"
     /\ posts[r][2].role = "mention"

\* ------------------------------------------------------------------------
\* C2
\* ------------------------------------------------------------------------
\* C2: when the comment author is the resolved owner (the owner's configured
\* username for the source equals the commenter, up to case) and
\* ALLOW_SELF_COMMENTS is not 'true', no owner-variant delivery is made.
C2_SelfCommentSuppressed ==
  \A r \in ReqIds :
     (/\ CommentEvent(r)
      /\ prOwner[r] # 0
      /\ ~allowSelf
      /\ PlatformUsername(r, prOwner[r]) # <<>>
      /\ SameAuthor(r, prOwner[r]))
     => \A i \in 1..Len(posts[r]) : posts[r][i].role # "comment"

\* A finished self-comment in which only somebody else was notified.
C2_Witness ==
  \E r \in ReqIds :
     /\ pc[r] = "done"
     /\ CommentEvent(r)
     /\ prOwner[r] # 0
     /\ ~allowSelf
     /\ PlatformUsername(r, prOwner[r]) # <<>>
     /\ SameAuthor(r, prOwner[r])
     /\ ToStr(event[r].commentAuthor) # PlatformUsername(r, prOwner[r])
     /\ Len(posts[r]) = 1
     /\ posts[r][1].role = "mention"

\* ------------------------------------------------------------------------
\* C3
\* ------------------------------------------------------------------------
\* C3: with ALLOW_SELF_COMMENTS not 'true' an entry whose platform username
\* equals the comment author gets no delivery in any role; with
\* ALLOW_SELF_COMMENTS = 'true' neither check suppresses anything: a resolved
\* owner gets the owner card and every mentioned entry's name is notified.
C3_SelfSuppression ==
  \A r \in ReqIds :
     CommentEvent(r) =>
       /\ ~allowSelf =>
            \A u \in Users : SameAuthor(r, u) => DeliveriesTo(r, u) = 0
       /\ (allowSelf /\ pc[r] = "done") =>
            /\ prOwner[r] # 0 =>
                 \E i \in 1..Len(posts[r]) :
                    /\ posts[r][i].user = prOwner[r]
                    /\ posts[r][i].role = "comment"
            /\ \A u \in Users :
                  Mentioned(r, u) =>
                     \E i \in 1..Len(posts[r]) :
                        users[posts[r][i].user].name = users[u].name

\* A finished comment whose author is mentioned by name and is not the owner:
\* the author got nothing while the owner was notified.
C3_Witness ==
  \E r \in ReqIds :
     /\ pc[r] = "done"
     /\ CommentEvent(r)
     /\ ~allowSelf
     /\ \E u \in Users :
           /\ SameAuthor(r, u)
           /\ Mentioned(r, u)
           /\ u # prOwner[r]
           /\ DeliveriesTo(r, u) = 0
     /\ Len(posts[r]) = 1
     /\ posts[r][1].role = "comment"

\* ------------------------------------------------------------------------
\* C4
\* ------------------------------------------------------------------------
\* Request r carries a GitHub 'closed' payload of a merged pull request whose
\* author login is present.
MergedPR(r) ==
  /\ req[r].source = "github"
  /\ req[r].body.action = "closed"
  /\ req[r].body.hasPR
  /\ req[r].body.merged
  /\ req[r].body.prLogin.t = "str"

\* Entry u is configured with a github.username equal, up to case, to login.
GitHubNameIs(u, login) ==
  /\ users[u].ghName.t = "str"
  /\ ToLowerCase(users[u].ghName.v) = ToLowerCase(login)

\* C4: for a merged GitHub PR whose author login matches a registered
\* github.username, processWebhook makes exactly one delivery, to the endpoint
\* of the matching entry (the first one in registry order), and the result
\* has type 'merge' and names that entry.
C4_MergeDelivery ==
  \A r \in ReqIds :
     (/\ MergedPR(r)
      /\ \E u \in Users : GitHubNameIs(u, req[r].body.prLogin.v)
      /\ called[r] # <<>>)
     => LET login == req[r].body.prLogin.v
            u == CHOOSE v \in Users :
                   /\ GitHubNameIs(v, login)
                   /\ \A w \in Users : GitHubNameIs(w, login) => v <= w
        IN /\ pc[r] \in {"sending", "done"}
           /\ Len(posts[r]) = 1
           /\ posts[r][1].user = u
           /\ posts[r][1].url = users[u].teamsWebhookUrl
           /\ posts[r][1].role = "merge"
           /\ pc[r] = "done" =>
                /\ resp[r].status = 200
                /\ resp[r].body.type = "merge"
                /\ resp[r].body.user = users[u].name
                /\ resp[r].body.processed = (posts[r][1].outcome = "ok")

\* A finished merge event whose login differs in case from the configured
\* username and whose single delivery succeeded.
C4_Witness ==
  \E r \in ReqIds :
     /\ MergedPR(r)
     /\ pc[r] = "done"
     /\ Len(posts[r]) = 1
     /\ GitHubNameIs(posts[r][1].user, req[r].body.prLogin.v)
     /\ users[posts[r][1].user].ghName.v # req[r].body.prLogin.v
     /\ resp[r].body.type = "merge"
     /\ resp[r].body.processed

\* ------------------------------------------------------------------------
\* C5
\* ------------------------------------------------------------------------
\* The parsers in the order processWebhook may evaluate them.
ParserOrder(source) ==
  IF source = "github"
  THEN <<"parseGitHubMergeEvent", "parseGitHubReviewEvent",
         "parseGitHubReviewPayload", "parseGitHubPayload">>
  ELSE <<"parseGitLabMergeEvent", "parseGitLabApprovalEvent",
         "parseGitLabPayload">>

\* C5: the parsers are evaluated in the order merge, review/approval,
\* comment; once a kind has matched, no later parser is evaluated and every
\* delivery of the request belongs to that kind.
C5_PriorityOrder ==
  \A r \in ReqIds :
     req[r].source # "none" =>
       LET order == ParserOrder(req[r].source)
           n == Len(called[r])
       IN /\ n <= Len(order)
          /\ called[r] = SubSeq(order, 1, n)
          /\ event[r].type = "merge" =>
               /\ n = 1
               /\ pc[r] \in {"sending", "done"}
               /\ \A i \in 1..Len(posts[r]) : posts[r][i].role = "merge"
          /\ event[r].type = "approval" =>
               /\ n = 2
               /\ pc[r] \in {"sending", "done"}
               /\ \A i \in 1..Len(posts[r]) : posts[r][i].role = "approval"
          /\ event[r].type = "comment" =>
               /\ n >= 3
               /\ \A i \in 1..Len(posts[r]) :
                     posts[r][i].role \in {"comment", "mention"}
          /\ event[r].type = "none" => posts[r] = <<>>

\* A finished merge event without a configured owner whose payload also
\* carries a review and a comment: only the merge parser ran.
C5_Witness ==
  \E r \in ReqIds :
     /\ pc[r] = "done"
     /\ event[r].type = "merge"
     /\ prOwner[r] = 0
     /\ req[r].body.hasReview
     /\ req[r].body.hasComment
     /\ called[r] = <<"parseGitHubMergeEvent">>
     /\ resp[r].status = 200

\* ------------------------------------------------------------------------
\* C6
\* ------------------------------------------------------------------------
\* C6: a merge or review/approval event makes at most one delivery, to the
\* resolved owner and in the event's own role; without a resolved owner it
\* ends with processed = false and no delivery, also when the review body
\* mentions a registered user.
C6_OwnerOnly ==
  \A r \in ReqIds :
     event[r].type \in {"merge", "approval"} =>
       /\ Len(posts[r]) <= 1
       /\ results[r] = <<>>
       /\ \A i \in 1..Len(posts[r]) :
             /\ posts[r][i].user = prOwner[r]
             /\ posts[r][i].role = event[r].type
       /\ prOwner[r] = 0 =>
            /\ posts[r] = <<>>
            /\ pc[r] = "done"
            /\ resp[r].status = 200
            /\ resp[r].body.processed = FALSE

\* A finished GitHub review whose author is not registered and whose body
\* mentions registered users.
C6_Witness ==
  \E r \in ReqIds :
     /\ pc[r] = "done"
     /\ event[r].type = "approval"
     /\ prOwner[r] = 0
     /\ findMentionedUsers(event[r].reviewBody, req[r].source) # <<>>
     /\ posts[r] = <<>>
     /\ resp[r].body.processed = FALSE

\* ------------------------------------------------------------------------
\* C7
\* ------------------------------------------------------------------------
\* Request r carries a GitLab note that is not on a merge request.
ForeignNote(r) ==
  /\ req[r].source = "gitlab"
  /\ req[r].body.object_kind = "note"
  /\ req[r].body.noteableType # "MergeRequest"

\* C7: a GitLab note whose noteable_type is not 'MergeRequest' is never
\* recognized: no event, no delivery, and processWebhook answers
\* processed = false with 'not a recognized MR event'.
C7_ForeignNoteIgnored ==
  \A r \in ReqIds :
     ForeignNote(r) =>
       /\ event[r] = NoEvent
       /\ posts[r] = <<>>
       /\ pc[r] \in {"idle", "verify", "merge", "review", "comment", "done"}
       /\ (pc[r] = "done" /\ resp[r].status # 401) =>
             /\ called[r] = ParserOrder("gitlab")
             /\ resp[r] = Json([processed |-> FALSE,
                                reason |-> <<"not a recognized", "MR", "event">>])

\* A finished note on an issue that carries a merge_request object and
\* mentions registered users.
C7_Witness ==
  \E r \in ReqIds :
     /\ ForeignNote(r)
     /\ pc[r] = "done"
     /\ resp[r].status = 200
     /\ req[r].body.hasMR
     /\ findMentionedUsers(req[r].body.note, "gitlab") # <<>>
     /\ findPROwner("gitlab", req[r].body.mrAuthorId) # 0

\* ------------------------------------------------------------------------
\* C8
\* ------------------------------------------------------------------------
\* The mention matches that qualify for a delivery, given the names already
\* notified; it does not depend on how any delivery ends.
RECURSIVE QualifyingMentions(_, _, _)
QualifyingMentions(r, m, seen) ==
  IF m = <<>> THEN <<>>
  ELSE LET u == Head(m).user
       IN IF (~allowSelf /\ SameAuthor(r, u)) \/ users[u].name \in seen
          THEN QualifyingMentions(r, Tail(m), seen)
          ELSE <<u>> \o QualifyingMentions(r, Tail(m),
                                           seen \cup {users[u].name})

\* The recipients of comment event r: the owner if it qualifies, then the
\* qualifying mention matches.
QualifyingRecipients(r) ==
  LET o == prOwner[r]
      owner == IF o # 0 /\ (allowSelf \/ ~SameAuthor(r, o)) THEN <<o>>
               ELSE <<>>
  IN owner \o QualifyingMentions(
                r, findMentionedUsers(event[r].commentBody, req[r].source),
                {users[owner[i]].name : i \in 1..Len(owner)})

\* C8: in a comment event every qualifying recipient gets its own delivery
\* attempt and its own outcome entry whatever the outcome of the earlier
\* deliveries, and no delivery outcome makes processWebhook throw.
C8_FailureIsolated ==
  \A r \in ReqIds :
     CommentEvent(r) =>
       /\ pc[r] = "threw" => posts[r] = <<>>
       /\ pc[r] = "done" =>
            /\ [i \in 1..Len(posts[r]) |-> posts[r][i].user]
                 = QualifyingRecipients(r)
            /\ Len(results[r]) = Len(posts[r])
            /\ \A i \in 1..Len(posts[r]) :
                  /\ results[r][i].user = users[posts[r][i].user].name
                  /\ results[r][i].sent = (posts[r][i].outcome = "ok")

\* A finished comment event whose first delivery failed on the network and
\* whose second delivery was made and succeeded.
C8_Witness ==
  \E r \in ReqIds :
     /\ pc[r] = "done"
     /\ CommentEvent(r)
     /\ Len(posts[r]) = 2
     /\ posts[r][1].outcome = "neterr"
     /\ posts[r][2].outcome = "ok"
     /\ results[r][1].sent = FALSE
     /\ results[r][2].sent = TRUE

\* ------------------------------------------------------------------------
\* C9
\* ------------------------------------------------------------------------
\* The signature header of request r is absent or is not the expected digest.
BadSignature(r) ==
  \/ header[r].t = "undef"
  \/ header[r].t = "str" /\ header[r].v # ExpectedDigest(req[r].body)

\* C9: with a GitHub secret configured, every request whose signature header
\* is absent, of another length or of the same length with other content is
\* answered 401, and processWebhook is not entered.
C9_BadSignatureRejected ==
  \A r \in ReqIds :
     (/\ githubSecret
      /\ req[r].source = "github"
      /\ pc[r] \notin {"idle", "verify"}
      /\ BadSignature(r))
     => /\ resp[r].status = 401
        /\ called[r] = <<>>
        /\ posts[r] = <<>>

\* ------------------------------------------------------------------------
\* C10
\* ------------------------------------------------------------------------
C10_Step ==
  \A r \in ReqIds :
     (pc[r] = "verify" /\ pc'[r] # "verify") =>
        IF req[r].source = "gitlab"
        THEN IF ~Truthy(gitlabToken) \/ header[r] = gitlabToken
             THEN pc'[r] = "merge" /\ resp'[r] = NoResp
             ELSE /\ pc'[r] = "done"
                  /\ resp'[r].status = 401
                  /\ posts'[r] = <<>>
                  /\ called'[r] = <<>>
        ELSE ~githubSecret => (pc'[r] = "merge" /\ resp'[r] = NoResp)

\* C10: a GitLab request enters processWebhook exactly when no token is
\* configured or its x-gitlab-token header equals the configured token, and
\* is otherwise answered 401 without any delivery; with no GitHub secret
\* configured every GitHub request enters processWebhook whatever its
\* signature header.
C10_TokenGate == [][C10_Step]_vars

\* A GitLab request with a wrong token that was answered 401.
C10_Witness ==
  \E r \in ReqIds :
     /\ req[r].source = "gitlab"
     /\ Truthy(gitlabToken)
     /\ header[r].t = "str"
     /\ header[r] # gitlabToken
     /\ pc[r] = "done"
     /\ resp[r].status = 401
     /\ posts[r] = <<>>

\* ------------------------------------------------------------------------
\* C11
\* ------------------------------------------------------------------------
\* A watch name that stands for itself in a regular expression (no '.').
LiteralName(name) == \A k \in 1..Len(name) : name[k] # "."

\* '@' followed by the name in any letter case, the occurrence ending at the
\* end of the body or before a character that is not a word character.
MentionOccurs(name, body) ==
  \E i \in 1..Len(body) :
     /\ body[i] = "@"
     /\ i + Len(name) <= Len(body)
     /\ ToLowerCase(SubSeq(body, i + 1, i + Len(name))) = ToLowerCase(name)
     /\ \/ i + Len(name) = Len(body)
        \/ ~IsWordChar(body[i + Len(name) + 1])

MentionsProbed == probe.fn = "findMentionedUsers"

\* C11: findMentionedUsers matches a watch name case-insensitively and only
\* where the '@name' occurrence ends at a word boundary.  For every applied
\* body: each reported match whose name is literal occurs in the body in some
\* letter case and ends at a boundary; each entry with a literal watch name
\* occurring that way is reported; '@Frontend-Team ' is reported as alias
\* 'frontend-team' and '@frontend-teams' is reported for nobody.
C11_CaseAndBoundary ==
  MentionsProbed =>
    /\ \A i \in 1..Len(probe.out) :
         LiteralName(probe.out[i].mentionedAs)
           => MentionOccurs(probe.out[i].mentionedAs, probe.body)
    /\ \A u \in 1..Len(users) :
         LET names == AllNames(users[u], probe.source)
         IN (\E k \in 1..Len(names) :
               LiteralName(names[k]) /\ MentionOccurs(names[k], probe.body))
              => \E i \in 1..Len(probe.out) : probe.out[i].user = u
    /\ probe.body = B_FrontendTeamSpace =>
         \E i \in 1..Len(probe.out) :
            /\ users[probe.out[i].user] = UserNilay
            /\ probe.out[i].mentionedAs = S_frontend_team
    /\ probe.body = B_frontend_teams => probe.out = <<>>

\* '@Frontend-Team ' was applied and matched the alias 'frontend-team'.
C11_Witness ==
  /\ MentionsProbed
  /\ probe.body = B_FrontendTeamSpace
  /\ \E i \in 1..Len(probe.out) : probe.out[i].mentionedAs = S_frontend_team

\* ------------------------------------------------------------------------
\* C12
\* ------------------------------------------------------------------------
\* The mention POSTs request r issued to entry u.
MentionPostsTo(r, u) ==
  {i \in 1..Len(posts[r]) : posts[r][i].role = "mention" /\ posts[r][i].user = u}

\* Entry u was notified as the owner of request r's PR/MR.
NotifiedAsOwner(r, u) ==
  \E i \in 1..Len(posts[r]) :
     posts[r][i].role = "comment" /\ posts[r][i].user = u

\* The watch name findMentionedUsers reports for entry u.
MatchedName(r, u) ==
  LET m == findMentionedUsers(event[r].commentBody, req[r].source)
  IN m[CHOOSE i \in 1..Len(m) : m[i].user = u].mentionedAs

\* C12: when a comment event has been handled, every registry entry with a
\* watch name matching the body that is not the comment author (or
\* ALLOW_SELF_COMMENTS is set) and was not notified as owner has received
\* exactly one mention delivery, posted to its own teamsWebhookUrl and
\* reported with its matched name, whether or not the PR/MR author is a
\* registered user.
C12_EveryMentionDelivered ==
  \A r \in ReqIds :
     (CommentEvent(r) /\ pc[r] = "done") =>
       \A u \in Users :
          (/\ Mentioned(r, u)
           /\ allowSelf \/ ~SameAuthor(r, u)
           /\ ~NotifiedAsOwner(r, u))
            => /\ Cardinality(MentionPostsTo(r, u)) = 1
               /\ \A i \in MentionPostsTo(r, u) :
                    /\ posts[r][i].url = users[u].teamsWebhookUrl
                    /\ results[r][i].type = "mention"
                    /\ results[r][i].user = users[u].name
                    /\ results[r][i].mentionedAs = MatchedName(r, u)

\* ------------------------------------------------------------------------
\* C13
\* ------------------------------------------------------------------------
CardProbed ==
  probe.fn \in {"createAdaptiveCard", "createMentionCard", "createApprovalCard"}

\* The body text the probed card shows ('' when the review card has no
\* text block).
CardText ==
  IF probe.fn = "createApprovalCard"
  THEN IF probe.out.blocks = <<>> THEN <<>> ELSE probe.out.blocks[1]
  ELSE probe.out.text

\* C13: in the owner-comment, mention and review cards a body longer than
\* 500 characters appears as its first 500 characters followed by '...', and
\* a body of at most 500 characters (500 included) appears unchanged.
C13_Truncation ==
  CardProbed =>
    LET body == probe.body
        text == CardText
    IN IF Len(body) > 500
       THEN /\ Len(text) = 503
            /\ \A i \in 1..500 : text[i] = body[i]
            /\ \A i \in 501..503 : text[i] = "."
       ELSE text = body

\* A body of 501 characters was cut in the review card.
C13_Witness ==
  /\ probe.fn = "createApprovalCard"
  /\ Len(probe.body) = 501
  /\ Len(CardText) = 503
  /\ CardText[500] = probe.body[500]
  /\ CardText[501] = "."

\* ------------------------------------------------------------------------
\* C14
\* ------------------------------------------------------------------------
\* The payload of request r carries no PR/MR author identity: on GitHub no
\* pull_request.user.login (issue.user.login for an issue-style comment), on
\* GitLab no author_id.
AuthorMissing(r) ==
  LET body == req[r].body
  IN IF req[r].source = "github"
     THEN (IF body.hasPR THEN body.prLogin ELSE body.issueLogin) = Undef
     ELSE (IF event[r].type = "comment" THEN body.mrAuthorId
           ELSE body.oaAuthorId) = Undef

\* C14: for every recognized event whose payload carries no PR/MR author
\* identity no owner is resolved, whatever the registry holds (entries with
\* no identity for that platform included), and nothing is delivered in the
\* owner role.
C14_NoOwnerWithoutAuthor ==
  \A r \in ReqIds :
     (event[r].type \in {"merge", "approval", "comment"} /\ AuthorMissing(r)) =>
       /\ prOwner[r] = 0
       /\ \A i \in 1..Len(posts[r]) : posts[r][i].role = "mention"

\* ------------------------------------------------------------------------
\* C15
\* ------------------------------------------------------------------------
\* processWebhook was entered for request r.
Processing(r) == header[r] = Accepted

\* C15: no payload makes processWebhook throw: once a request has passed the
\* authenticity check, its handling never ends in an exception (a null
\* comment.body or review.state included).
C15_NeverThrows ==
  \A r \in ReqIds : Processing(r) => pc[r] # "threw"

\* ------------------------------------------------------------------------
\* C16
\* ------------------------------------------------------------------------
\* The event a payload is classified as when it is handled alone: the
\* parsers in the order of processWebhook.
AloneEvent(source, body) ==
  LET merge == IF source = "github" THEN parseGitHubMergeEvent(body)
               ELSE parseGitLabMergeEvent(body)
      review == IF source = "github" THEN parseGitHubReviewEvent(body)
                ELSE parseGitLabApprovalEvent(body)
      first == IF source = "github" THEN parseGitHubReviewPayload(body)
               ELSE parseGitLabPayload(body)
      comment == IF source = "github" /\ first.type = "none"
                 THEN parseGitHubPayload(body) ELSE first
  IN IF merge.type # "none" THEN merge
     ELSE IF review.type # "none" THEN review
     ELSE comment

RECURSIVE AloneMentions(_, _, _)
AloneMentions(ev, m, seen) ==
  IF m = <<>> THEN <<>>
  ELSE LET u == Head(m).user
       IN IF (~allowSelf /\ isCommentAuthor(users[u], ev.source,
                                            ev.commentAuthor))
             \/ users[u].name \in seen
          THEN AloneMentions(ev, Tail(m), seen)
          ELSE <<[role |-> "mention", user |-> u,
                  mentionedAs |-> Head(m).mentionedAs]>>
               \o AloneMentions(ev, Tail(m), seen \cup {users[u].name})

\* The owner of the event, and whether a comment event notifies it.
AloneOwner(ev) == findPROwner(ev.source, ev.prAuthor)
AloneOwnerNotified(ev) ==
  /\ AloneOwner(ev) # 0
  /\ allowSelf \/ ~isCommentAuthor(users[AloneOwner(ev)], ev.source,
                                    ev.commentAuthor)

\* Handling the payload alone ends in an exception.
AloneThrows(source, body) ==
  LET ev == AloneEvent(source, body)
  IN \/ ev.type = "throw"
     \/ /\ ev.type = "comment"
        /\ AloneOwnerNotified(ev)
        /\ CardThrows(ev.commentBody)

\* The delivery attempts of the payload handled alone, in order.
AloneAttempts(source, body) ==
  LET ev == AloneEvent(source, body)
  IN IF AloneThrows(source, body) \/ ev.type = "none" THEN <<>>
     ELSE IF ev.type \in {"merge", "approval"}
     THEN IF AloneOwner(ev) = 0 THEN <<>>
          ELSE <<[role |-> ev.type, user |-> AloneOwner(ev),
                  mentionedAs |-> <<>>]>>
     ELSE LET owner == IF AloneOwnerNotified(ev)
                       THEN <<[role |-> "comment", user |-> AloneOwner(ev),
                               mentionedAs |-> <<>>]>>
                       ELSE <<>>
          IN owner \o AloneMentions(
                         ev, findMentionedUsers(ev.commentBody, source),
                         {users[owner[i].user].name : i \in 1..Len(owner)})

\* The response of the payload handled alone, given the outcome of each of
\* its deliveries.
AloneResponse(source, body, outcomes) ==
  LET ev == AloneEvent(source, body)
      att == AloneAttempts(source, body)
  IN IF AloneThrows(source, body) THEN NoResp
     ELSE IF ev.type = "none"
     THEN Json([processed |-> FALSE,
                reason |-> <<"not a recognized", PrLabel(source), "event">>])
     ELSE IF ev.type \in {"merge", "approval"} /\ att = <<>>
     THEN Json([processed |-> FALSE,
                reason |-> <<PrLabel(source), "author not configured">>])
     ELSE IF ev.type = "merge"
     THEN Json([processed |-> outcomes[1] = "ok", type |-> "merge",
                user |-> users[att[1].user].name])
     ELSE IF ev.type = "approval"
     THEN Json([processed |-> outcomes[1] = "ok", type |-> "approval",
                state |-> ev.state, user |-> users[att[1].user].name])
     ELSE IF att = <<>>
     THEN Json([processed |-> FALSE,
                reason |-> <<"no configured users to notify">>])
     ELSE Json([processed |-> TRUE,
                notifications |->
                  [i \in 1..Len(att) |->
                     IF att[i].role = "comment"
                     THEN [type |-> "comment",
                           user |-> users[att[i].user].name,
                           sent |-> outcomes[i] = "ok"]
                     ELSE [type |-> "mention",
                           user |-> users[att[i].user].name,
                           mentionedAs |-> att[i].mentionedAs,
                           sent |-> outcomes[i] = "ok"]]])

\* The handler of request r has run to its end.
Ended(r) == Processing(r) /\ pc[r] \in {"done", "threw"}

\* Request r made the delivery attempts and got the response it would have
\* made and got alone.
SameAsAlone(r) ==
  LET att == AloneAttempts(req[r].source, req[r].body)
  IN /\ Len(posts[r]) = Len(att)
     /\ \A i \in 1..Len(att) :
          /\ posts[r][i].role = att[i].role
          /\ posts[r][i].user = att[i].user
          /\ posts[r][i].url = users[att[i].user].teamsWebhookUrl
     /\ resp[r] = AloneResponse(req[r].source, req[r].body,
                                [i \in 1..Len(posts[r]) |-> posts[r][i].outcome])

\* No step modifies the registry or the rest of the configuration.
C16_Step == config' = config

\* C16: in every interleaving of two concurrently handled requests each
\* request that has run to its end has made the delivery attempts and got the
\* response it would make and get when handled alone, and no step modifies
\* the registry.
C16_Isolation ==
  /\ [](\A r \in ReqIds : Ended(r) => SameAsAlone(r))
  /\ [][C16_Step]_vars

\* Request 1 has ended with two deliveries while request 2, carrying another
\* payload, awaits a delivery; both have posted to the entry named alice.
C16_Witness ==
  /\ Ended(1)
  /\ Len(posts[1]) = 2
  /\ pc[2] = "sending"
  /\ req[1] # req[2]
  /\ \A r \in ReqIds :
       \E i \in 1..Len(posts[r]) : users[posts[r][i].user].name = "alice"

\* ------------------------------------------------------------------------
\* C17
\* ------------------------------------------------------------------------
\* Every delivery request r issued has returned.
DeliveriesCompleted(r) ==
  /\ inflight[r] = NoDelivery
  /\ \A i \in 1..Len(posts[r]) : posts[r][i].outcome # "pending"

\* C17: a request that passed the authenticity check receives one JSON
\* response, written after all its deliveries have returned.  Stated on the
\* runs that have come to their end: a handler with no step left has written
\* its response, and a written response finds every delivery completed.
C17_Responds ==
  \A r \in ReqIds :
     /\ Ended(r) => resp[r].status = 200
     /\ resp[r].status = 200 => (pc[r] = "done" /\ DeliveriesCompleted(r))

\* ------------------------------------------------------------------------
\* C18
\* ------------------------------------------------------------------------
\* C18: the response of a handled comment event lists one notification per
\* delivery attempted, in order, naming the recipient, its role ('comment'
\* for the owner, 'mention' with the matched name otherwise) and whether the
\* delivery succeeded; when no delivery was attempted the response is
\* processed = false with a reason and carries no notifications list.
C18_NotificationsList ==
  \A r \in ReqIds :
     (CommentEvent(r) /\ pc[r] = "done") =>
       LET body == resp[r].body
       IN IF posts[r] = <<>>
          THEN /\ body.processed = FALSE
               /\ "reason" \in DOMAIN body
               /\ "notifications" \notin DOMAIN body
          ELSE /\ body.processed = TRUE
               /\ Len(body.notifications) = Len(posts[r])
               /\ \A i \in 1..Len(posts[r]) :
                    LET n == body.notifications[i]
                        p == posts[r][i]
                    IN /\ n.user = users[p.user].name
                       /\ n.type = p.role
                       /\ n.sent = (p.outcome = "ok")
                       /\ IF p.role = "mention"
                          THEN n.mentionedAs = MatchedName(r, p.user)
                          ELSE /\ p.role = "comment"
                               /\ "mentionedAs" \notin DOMAIN n

\* A response listing an owner notification that succeeded and a mention
\* notification that failed.
C18_Witness ==
  \E r \in ReqIds :
     /\ CommentEvent(r)
     /\ pc[r] = "done"
     /\ Len(posts[r]) = 2
     /\ resp[r].body.processed = TRUE
     /\ Len(resp[r].body.notifications) = 2
     /\ resp[r].body.notifications[1].type = "comment"
     /\ resp[r].body.notifications[1].sent
     /\ resp[r].body.notifications[2].type = "mention"
     /\ ~resp[r].body.notifications[2].sent

\* ------------------------------------------------------------------------
\* C19
\* ------------------------------------------------------------------------
\* Request r is a GitHub payload with action 'submitted' under processing.
SubmittedReview(r) ==
  /\ Processing(r)
  /\ req[r].source = "github"
  /\ req[r].body.action = "submitted"

\* The review state of request r, lower-cased, is one of the two handled
\* states.
HandledState(r) ==
  LET st == req[r].body.reviewState
  IN /\ req[r].body.hasReview
     /\ st.t = "str"
     /\ ToLowerCase(st.v) \in {PR_REVIEW_APPROVED_STATE,
                                PR_REVIEW_CHANGES_REQUESTED_STATE}

NotRecognized(r) ==
  resp[r] = Json([processed |-> FALSE,
                  reason |-> <<"not a recognized", PrLabel(req[r].source),
                               "event">>])

\* C19: a GitHub 'submitted' payload is classified as a review only when its
\* review state, lower-cased, is 'approved' or 'changes_requested' (and the
\* event then carries that state); with any other state it is classified as
\* no kind and nothing is delivered, and with any other state that is a
\* string or absent its handling ends with the not-recognized response.
C19_ReviewStates ==
  \A r \in ReqIds :
     SubmittedReview(r) =>
       /\ event[r].type = "approval" =>
            /\ HandledState(r)
            /\ event[r].state = ToLowerCase(req[r].body.reviewState.v)
       /\ ~HandledState(r) =>
            /\ event[r] = NoEvent
            /\ posts[r] = <<>>
            /\ (req[r].body.reviewState.t \in {"str", "undef"}
                  /\ pc[r] \notin {"merge", "review", "comment"})
                 => (pc[r] = "done" /\ NotRecognized(r))

\* A review submitted with state 'commented' ended as not recognized after
\* the review parser and both comment parsers declined it.
C19_Witness ==
  \E r \in ReqIds :
     /\ SubmittedReview(r)
     /\ req[r].body.hasReview /\ req[r].body.hasPR
     /\ req[r].body.reviewState = Str(S_commented)
     /\ pc[r] = "done"
     /\ NotRecognized(r)
     /\ called[r] = <<"parseGitHubMergeEvent", "parseGitHubReviewEvent",
                      "parseGitHubReviewPayload", "parseGitHubPayload">>

\* ------------------------------------------------------------------------
\* C20
\* ------------------------------------------------------------------------
\* Request r is a GitHub 'created' payload with a comment and an issue
\* object but no top-level pull_request, under processing.
IssueComment(r) ==
  /\ Processing(r)
  /\ req[r].source = "github"
  /\ req[r].body.action = "created"
  /\ req[r].body.hasComment
  /\ req[r].body.hasIssue
  /\ ~req[r].body.hasPR

\* The parsers of request r have all been tried.
Classified(r) == pc[r] \notin {"idle", "verify", "merge", "review", "comment"}

\* C20: a GitHub 'created' payload with a comment and an issue but no
\* top-level pull_request is recognized as a PR comment, its author taken
\* from issue.user.login, exactly when the issue has a pull_request field; a
\* comment on a plain issue is never recognized and causes no delivery.
C20_IssueStyleComment ==
  \A r \in ReqIds :
     IssueComment(r) =>
       /\ event[r].type \in {"none", "comment"}
       /\ event[r].type = "comment" => req[r].body.issueHasPR
       /\ (Classified(r) /\ req[r].body.issueHasPR) =>
            /\ event[r].type = "comment"
            /\ event[r].prAuthor = Get(req[r].body.issueLogin, Str(<<>>))
            /\ called[r][Len(called[r])] = "parseGitHubPayload"
       /\ ~req[r].body.issueHasPR =>
            /\ posts[r] = <<>>
            /\ Classified(r) => (pc[r] = "done" /\ NotRecognized(r))

\* An issue-style comment on a PR was recognized and delivered to the owner
\* resolved from issue.user.login.
C20_Witness ==
  \E r \in ReqIds :
     /\ IssueComment(r)
     /\ req[r].body.issueHasPR
     /\ req[r].body.issueLogin = Str(S_AL)
     /\ pc[r] = "done"
     /\ prOwner[r] # 0
     /\ GitHubNameIs(prOwner[r], S_al)
     /\ \E i \in 1..Len(posts[r]) :
          posts[r][i].role = "comment" /\ posts[r][i].user = prOwner[r]

\* ------------------------------------------------------------------------
\* C21
\* ------------------------------------------------------------------------
SendProbed == probe.fn = "sendToTeams"

\* C21: one call of sendToTeams makes at most one POST (none without an
\* endpoint URL, no second one after a failure) and reports success exactly
\* when a POST was made and answered with a 2xx status; a non-2xx answer, a
\* network error and a missing URL are reported as failure, never thrown.
C21_OnePostSuccessIff2xx ==
  SendProbed =>
    /\ probe.out.posts \in {0, 1}
    /\ probe.out.posts = 1 <=> probe.url # ""
    /\ probe.out.returns \in {"true", "false"}
    /\ probe.out.returns = "true"
         <=> (probe.out.posts = 1 /\ probe.outcome = "ok")

\* A POST answered with a non-2xx status was reported as failure.
C21_Witness ==
  /\ SendProbed
  /\ probe.url = "urlN"
  /\ probe.outcome = "non2xx"
  /\ probe.out = [posts |-> 1, returns |-> "false"]

\* ------------------------------------------------------------------------
\* C22
\* ------------------------------------------------------------------------
\* USERS_CONFIG parses to a non-empty array whose entries all have a name
\* and a teamsWebhookUrl.
ValidUsersConfig ==
  /\ env.k = "text"
  /\ env.doc.j = "array"
  /\ Len(env.doc.items) > 0
  /\ \A i \in 1..Len(env.doc.items) :
       /\ env.doc.items[i].name # ""
       /\ env.doc.items[i].teamsWebhookUrl # ""

RequestAccepted == \E r \in ReqIds : pc[r] # "idle"

\* C22: the server listens, and accepts a request, only if USERS_CONFIG
\* parses to a non-empty array whose entries all have a name and a
\* teamsWebhookUrl, and it then serves exactly that array; with any other
\* USERS_CONFIG the startup ends in an exit with no request accepted.
C22_StartupValidation ==
  /\ proc \in {"validated", "listening"} =>
       (ValidUsersConfig /\ users = env.doc.items)
  /\ RequestAccepted => proc = "listening"
  /\ ~ValidUsersConfig => proc \in {"loading", "validating", "exited"}
  /\ (~ValidUsersConfig /\ proc = "validating") =>
       (env.k = "text" /\ env.doc.j = "array" /\ Len(env.doc.items) > 0)

\* The startup exited on an array whose first entry is complete and whose
\* second entry has no teamsWebhookUrl.
C22_Witness ==
  /\ proc = "exited"
  /\ env = EnvText([j |-> "array", items |-> <<UserAlice, UserNoUrl>>])
  /\ ~RequestAccepted

\* ------------------------------------------------------------------------
\* C23
\* ------------------------------------------------------------------------
\* The watch names of an entry in the order the claim gives: the platform
\* username for the source (if configured), then the aliases.
WatchNames(user, source) ==
  LET n == IF source = "github" THEN user.ghName ELSE user.glName
  IN (IF n.t = "str" /\ n.v # <<>> THEN <<n.v>> ELSE <<>>) \o user.aliases

\* C23: the name reported as mentionedAs, and shown in the mention card, is
\* the first of the entry's watch names (platform username, then aliases in
\* configured order) that matches the body, and an entry is reported at most
\* once.
C23_FirstNameWins ==
  MentionsProbed =>
    /\ \A i \in 1..Len(probe.out) :
         LET names == WatchNames(users[probe.out[i].user], probe.source)
         IN /\ \E k \in 1..Len(names) :
                 /\ names[k] = probe.out[i].mentionedAs
                 /\ MentionPatternTest(names[k], probe.body)
                 /\ \A j \in 1..(k - 1) :
                      ~MentionPatternTest(names[j], probe.body)
            /\ probe.cards[i].mentionedAs = probe.out[i].mentionedAs
    /\ \A i, j \in 1..Len(probe.out) :
         i # j => probe.out[i].user # probe.out[j].user

\* '@frontend-team @NilayBarde' on GitHub: the username is reported although
\* the alias comes first in the body.
C23_Witness ==
  /\ MentionsProbed
  /\ probe.source = "github"
  /\ probe.body = B_fe_then_Nilay
  /\ \E i \in 1..Len(probe.out) :
       /\ users[probe.out[i].user] = UserNilay
       /\ probe.out[i].mentionedAs = S_NilayBarde
       /\ probe.cards[i].mentionedAs = S_NilayBarde

\* The comment of request r was written by the configured user: its author
\* is the configured username of the platform, up to letter case.
WrittenByConfiguredUser(r) ==
  LET me == users[1]
      username == IF req[r].source = "github" THEN me.ghName ELSE me.glName
  IN /\ username.t = "str"
     /\ event[r].commentAuthor.t = "str"
     /\ ToLowerCase(event[r].commentAuthor.v) = ToLowerCase(username.v)

\* C24: in the single-user variants a comment written by the configured user
\* never produces a delivery while ALLOW_SELF_COMMENTS is not 'true', for
\* GitHub comments and for GitLab notes alike.
C24_SingleSelfSuppressed ==
  \A r \in ReqIds :
     (/\ program \in SinglePrograms
      /\ CommentEvent(r)
      /\ ~allowSelf
      /\ WrittenByConfiguredUser(r))
     => posts[r] = <<>>

\* The GitHub half of C24 alone.
C24_GitHubOnly ==
  \A r \in ReqIds :
     (/\ program \in SinglePrograms
      /\ CommentEvent(r)
      /\ req[r].source = "github"
      /\ ~allowSelf
      /\ WrittenByConfiguredUser(r))
     => posts[r] = <<>>

\* What the parsers of one kind make of a payload: the type of the event
\* they return ("none" when they decline, "throw" when they throw).
KindResult(kind, source, body) ==
  CASE kind = "merge" ->
         (IF source = "github" THEN parseGitHubMergeEvent(body)
          ELSE parseGitLabMergeEvent(body)).type
    [] kind = "approval" ->
         (IF source = "github" THEN parseGitHubReviewEvent(body)
          ELSE parseGitLabApprovalEvent(body)).type
    [] kind = "comment" ->
         IF source = "github"
         THEN IF parseGitHubReviewPayload(body).type # "none"
              THEN parseGitHubReviewPayload(body).type
              ELSE parseGitHubPayload(body).type
         ELSE parseGitLabPayload(body).type

Kinds == {"merge", "approval", "comment"}

\* The kinds whose parsers do not decline the payload.
AcceptingKinds(source, body) ==
  {k \in Kinds : KindResult(k, source, body) # "none"}

\* The orders in which the three kinds could be evaluated.
KindOrders ==
  {o \in [1..3 -> Kinds] : \A i, j \in 1..3 : i # j => o[i] # o[j]}

\* The classification when the kinds are evaluated in the given order: the
\* result of the first kind that does not decline.
ClassifyIn(order, source, body) ==
  IF KindResult(order[1], source, body) # "none"
  THEN KindResult(order[1], source, body)
  ELSE IF KindResult(order[2], source, body) # "none"
  THEN KindResult(order[2], source, body)
  ELSE KindResult(order[3], source, body)

\* C25: for each source the merge, review/approval and comment parsers are
\* mutually exclusive: no payload is taken by more than one kind, the event
\* processWebhook settles on is that of the only kind that takes it, and
\* every other evaluation order classifies the payload the same way.
C25_ParsersExclusive ==
  \A r \in ReqIds :
     req[r].source # "none" =>
       LET source == req[r].source
           body == req[r].body
       IN /\ Cardinality(AcceptingKinds(source, body)) <= 1
          /\ event[r].type # "none" =>
                AcceptingKinds(source, body) = {event[r].type}
          /\ \A o \in KindOrders :
                ClassifyIn(o, source, body)
                  = ClassifyIn(<<"merge", "approval", "comment">>, source, body)

\* A merged pull request whose payload also carries an approved review and
\* a comment has been classified, as a merge.
C25_Witness ==
  \E r \in ReqIds :
     /\ req[r].source = "github"
     /\ req[r].body.action = PR_CLOSED_ACTION
     /\ req[r].body.merged
     /\ req[r].body.hasReview
     /\ req[r].body.hasComment
     /\ event[r].type = "merge"
     /\ pc[r] = "done"

\* The handler of request r has written a 200 response.
Answered(r) == pc[r] = "done" /\ resp[r].status = 200

\* C26: processed means different things per kind.  For a merge or review
\* event with a resolved owner it is the success of the single delivery; for
\* a comment event it is true exactly when at least one delivery was
\* attempted, whether or not any of them succeeded.
C26_ProcessedPerKind ==
  \A r \in ReqIds :
     Answered(r) =>
       /\ (event[r].type \in {"merge", "approval"} /\ prOwner[r] # 0) =>
             /\ Len(posts[r]) = 1
             /\ resp[r].body.processed = (posts[r][1].outcome = "ok")
       /\ CommentEvent(r) =>
             resp[r].body.processed = (Len(posts[r]) >= 1)

\* A comment event whose two deliveries both failed was answered with
\* processed true, and a merge whose delivery failed with processed false.
C26_Witness ==
  \E r \in ReqIds :
     /\ Answered(r)
     /\ CommentEvent(r)
     /\ Len(posts[r]) = 2
     /\ \A i \in 1..2 : posts[r][i].outcome # "ok"
     /\ resp[r].body.processed

\* C27: within one comment event the deliveries are strictly sequential and
\* ordered.  Only the latest POST can be awaiting its outcome, so each
\* delivery starts after the previous one has completed; the owner delivery
\* comes before every mention delivery; mention deliveries follow registry
\* order; and the notifications list holds the completed deliveries in the
\* order in which they were made.
C27_SequentialOrdered ==
  \A r \in ReqIds :
     CommentEvent(r) =>
       LET p == posts[r]
       IN /\ \A i \in 1..Len(p) : p[i].outcome = "pending" => i = Len(p)
          /\ \A i \in 1..Len(p) : p[i].role = "comment" => i = 1
          /\ \A i, j \in 1..Len(p) :
                (i < j /\ p[i].role = "mention" /\ p[j].role = "mention")
                => p[i].user < p[j].user
          /\ Len(results[r])
               = Cardinality({i \in 1..Len(p) : p[i].outcome # "pending"})
          /\ \A i \in 1..Len(results[r]) :
                /\ results[r][i].type = p[i].role
                /\ results[r][i].user = users[p[i].user].name
                /\ results[r][i].sent = (p[i].outcome = "ok")

\* The owner delivery of a comment event has completed and a mention
\* delivery to a later registry entry is awaiting its outcome.
C27_Witness ==
  \E r \in ReqIds :
     /\ CommentEvent(r)
     /\ Len(posts[r]) = 2
     /\ posts[r][1].role = "comment"
     /\ posts[r][1].outcome # "pending"
     /\ posts[r][2].role = "mention"
     /\ posts[r][2].outcome = "pending"
     /\ Len(results[r]) = 1

\* The person who merged or reviewed, for a merge or approval event.
Actor(r) ==
  IF event[r].type = "merge" THEN event[r].mergedBy ELSE event[r].reviewedBy

\* The resolved owner of request r is the person who merged or reviewed.
ActorIsOwner(r) ==
  /\ prOwner[r] # 0
  /\ isCommentAuthor(users[prOwner[r]], req[r].source, Actor(r))

\* C28: self-notification suppression applies to comment events only.  For
\* a merge or review/approval event with a resolved owner, the one delivery
\* goes to the owner, also when the owner merged or reviewed and whatever
\* ALLOW_SELF_COMMENTS says.
C28_NoSuppressionOutsideComments ==
  \A r \in ReqIds :
     (event[r].type \in {"merge", "approval"} /\ prOwner[r] # 0) =>
       /\ Len(posts[r]) = 1
       /\ posts[r][1].user = prOwner[r]
       /\ posts[r][1].role = event[r].type

\* The owner merged their own merge request while ALLOW_SELF_COMMENTS is not
\* 'true', and has been notified of the merge.
C28_Witness ==
  \E r \in ReqIds :
     /\ event[r].type = "merge"
     /\ ActorIsOwner(r)
     /\ ~allowSelf
     /\ Answered(r)
     /\ Len(posts[r]) = 1
     /\ posts[r][1].user = prOwner[r]

\* The same for a review: the owner approved their own pull request.
C28_ReviewCase ==
  \E r \in ReqIds :
     /\ event[r].type = "approval"
     /\ ActorIsOwner(r)
     /\ ~allowSelf
     /\ Answered(r)
     /\ Len(posts[r]) = 1

\* '@' immediately followed by the name taken literally, up to letter case.
LiteralOccurs(name, body) ==
  \E i \in 1..Len(body) :
     /\ body[i] = "@"
     /\ i + Len(name) <= Len(body)
     /\ ToLowerCase(SubSeq(body, i + 1, i + Len(name))) = ToLowerCase(name)

\* C29: a user is reported as mentioned only if the body contains '@'
\* immediately followed by one of that user's watch-names taken literally,
\* up to letter case; a '.' in a configured name matches only a '.'.
C29_LiteralMatching ==
  MentionsProbed =>
    \A i \in 1..Len(probe.out) :
       \E name \in {WatchNames(users[probe.out[i].user], probe.source)[k] :
                     k \in 1..Len(WatchNames(users[probe.out[i].user],
                                             probe.source))} :
          LiteralOccurs(name, probe.body)

\* C30: in every comment event the user names of the notifications are
\* pairwise distinct: no two deliveries of one request go to registry
\* entries of the same name, and the results array and the notifications
\* list of the response name no user twice.
C30_DistinctNames ==
  \A r \in ReqIds :
     CommentEvent(r) =>
       /\ \A i, j \in 1..Len(posts[r]) :
             i # j => users[posts[r][i].user].name # users[posts[r][j].user].name
       /\ \A i, j \in 1..Len(results[r]) :
             i # j => results[r][i].user # results[r][j].user
       /\ (Answered(r) /\ resp[r].body.processed) =>
             \A i, j \in 1..Len(resp[r].body.notifications) :
                i # j => resp[r].body.notifications[i].user
                           # resp[r].body.notifications[j].user

\* Two registry entries share a name, a comment mentions both, and the
\* request was answered with a single notification.
C30_Witness ==
  \E r \in ReqIds :
     /\ CommentEvent(r)
     /\ Len(users) = 2
     /\ users[1].name = users[2].name
     /\ Len(findMentionedUsers(event[r].commentBody, req[r].source)) = 2
     /\ Answered(r)
     /\ resp[r].body.processed
     /\ Len(resp[r].body.notifications) = 1

====
